---- MODULE Spec2Model ----
(***************************************************************************)
(* A model of ghash (opencoff/go-progs): the concurrent traversal,         *)
(* deduplication and hash pipeline of processArgs (ghash/process.go), the  *)
(* verification pipeline of doVerify (verify.go) and the manifest line     *)
(* codec (main.go writer, parseLine).                                      *)
(***************************************************************************)
EXTENDS Integers, Sequences, FiniteSets, TLC

\* ------------------------------------------------------------------ bounds
\* longest input name list handed to processArgs
MaxArgs == 3
\* most entry lines in a manifest handed to doVerify
MaxLines == 3
\* most concurrent isEntrySeen calls in a tracker run
NCallers == 3
\* longest path of a codec run
MaxPathLen == 3
\* hop limit of the OS symlink resolution (enough to walk every chain of FS)
LinkHops == 3
\* the processArgs invocations one process makes in a row
MaxRuns == 2
\* the files a walk of finddup finds
MaxFiles == 3
\* the length of a hex digest
MaxHex == 3
\* the regular files of a long name list (one more than the result channel
\* holds)
NMany == 17
\* the records the walker hands to godu
MaxRecs == 3
\* the bytes of an input of hexlify
MaxIn == 5
\* hexlify's chunk size _BUFSZ (65536 in the program) scaled down to the
\* smallest size above one group of three bytes that leaves the same
\* remainder modulo 3
BUFSZ == 4

\* ------------------------------------------------------- program constants
\* var nWorkers = runtime.NumCPU() * _parallelism, with _parallelism = 2, on a
\* machine with one CPU
nWorkers == 2
\* errch := make(chan error, 1)
ErrChanCap == 1

Min(a, b) == IF a < b THEN a ELSE b

\* nw := nWorkers; if len(args) < nw { nw = len(args) }: the workers
\* processArgs starts
NoWorkers(list) == 0
NumWorkers(list) == Min(Len(list), nWorkers)

\* q <- x on a buffered channel of capacity cap goes through only while the
\* buffer has room; otherwise the sender blocks
CanSendAlways(q, cap) == TRUE
CanSend(q, cap) == Len(q) < cap

\* ---------------------------------------------------- the filesystem (args)
\* What lstat(2) returns for each existing name: identity and mode.
\* f and h are hard links of one inode; g has the same inode number as f on
\* another device; k is one more file; l -> f, ld -> d, la -> lb -> la (a
\* cycle); p is a fifo;
\* every other name does not exist.
\* m01, m02, ...: the regular files of a long name list, on a third device
ManyList ==
  << "m01", "m02", "m03", "m04", "m05", "m06", "m07", "m08", "m09", "m10",
     "m11", "m12", "m13", "m14", "m15", "m16", "m17", "m18", "m19", "m20" >>
ManyNames == {ManyList[i] : i \in 1 .. NMany}
ManyIndex(n) == CHOOSE i \in 1 .. NMany : ManyList[i] = n

FS ==
  [ f  |-> [dev |-> 1, rdev |-> 0, ino |-> 1, mode |-> "reg"],
    h  |-> [dev |-> 1, rdev |-> 0, ino |-> 1, mode |-> "reg"],
    g  |-> [dev |-> 2, rdev |-> 0, ino |-> 1, mode |-> "reg"],
    k  |-> [dev |-> 1, rdev |-> 0, ino |-> 8, mode |-> "reg"],
    d  |-> [dev |-> 1, rdev |-> 0, ino |-> 2, mode |-> "dir"],
    p  |-> [dev |-> 1, rdev |-> 0, ino |-> 3, mode |-> "other"],
    l  |-> [dev |-> 1, rdev |-> 0, ino |-> 4, mode |-> "symlink"],
    ld |-> [dev |-> 1, rdev |-> 0, ino |-> 5, mode |-> "symlink"],
    la |-> [dev |-> 1, rdev |-> 0, ino |-> 6, mode |-> "symlink"],
    lb |-> [dev |-> 1, rdev |-> 0, ino |-> 7, mode |-> "symlink"],
    ll |-> [dev |-> 1, rdev |-> 0, ino |-> 9, mode |-> "symlink"] ]
  @@ [n \in ManyNames |->
        [dev |-> 3, rdev |-> 0, ino |-> ManyIndex(n), mode |-> "reg"]]

LinkTarget == [ l |-> "f", ld |-> "d", la |-> "lb", lb |-> "la", ll |-> "l" ]

\* the names an input list is drawn from ("x" does not exist)
ArgNames == {"f", "h", "g", "k", "d", "l", "ld", "la", "x"}

\* the names of FS that a short name list can hold
ShortNames == DOMAIN FS \ ManyNames

NoInfo == [dev |-> 0, rdev |-> 0, ino |-> 0, mode |-> "none"]

\* os.Lstat(nm): does not follow a final symlink
Lstat(nm) ==
  IF nm \in DOMAIN FS THEN [ok |-> TRUE, fi |-> FS[nm]]
                      ELSE [ok |-> FALSE, fi |-> NoInfo]

\* filepath.EvalSymlinks(nm): resolves the whole chain, fails on a missing
\* name and on a chain longer than the hop limit (a cycle)
RECURSIVE WalkLinks(_, _)
WalkLinksNoLimit(nm, hops) ==
  IF nm \notin DOMAIN FS THEN [ok |-> FALSE, path |-> ""]
  ELSE IF FS[nm].mode # "symlink" \/ hops = 0 THEN [ok |-> TRUE, path |-> nm]
  ELSE WalkLinks(LinkTarget[nm], hops - 1)
WalkLinks(nm, hops) ==
  IF nm \notin DOMAIN FS THEN [ok |-> FALSE, path |-> ""]
  ELSE IF FS[nm].mode # "symlink" THEN [ok |-> TRUE, path |-> nm]
  ELSE IF hops = 0 THEN [ok |-> FALSE, path |-> ""]
  ELSE WalkLinks(LinkTarget[nm], hops - 1)

EvalSymlinks(nm) == WalkLinks(nm, LinkHops)

\* os.Stat(nm): follows symlinks
Stat(nm) ==
  LET r == EvalSymlinks(nm)
  IN IF r.ok THEN [ok |-> TRUE, fi |-> FS[r.path]]
             ELSE [ok |-> FALSE, fi |-> NoInfo]

\* ------------------------------------------------------------ inode tracker
\* key := fmt.Sprintf("%d:%d:%d", st.Dev, st.Rdev, st.Ino)
\* (decimal fields separated by ':' : one string per triple)
InodeKeyNoDev(fi) == <<0, fi.rdev, fi.ino>>
InodeKey(fi) == <<fi.dev, fi.rdev, fi.ino>>

\* sync.Map.LoadOrStore(key, val): the map afterwards
StoreAlways(m, key, val) ==
  [k \in DOMAIN m \cup {key} |-> IF k = key THEN val ELSE m[k]]
LoadOrStoreMap(m, key, val) ==
  IF key \in DOMAIN m THEN m
  ELSE [k \in DOMAIN m \cup {key} |-> IF k = key THEN val ELSE m[k]]

\* sync.Map.LoadOrStore(key, val): the value returned (the stored one if any)
LoadOrStoreActual(m, key, val) == IF key \in DOMAIN m THEN m[key] ELSE val

\* sync.Map.LoadOrStore(key, val): the loaded flag
LoadOrStoreLoaded(m, key) == key \in DOMAIN m

\* isEntrySeen's return value, given what LoadOrStore returned
SeenResult(loaded, xt, fi) ==
  IF ~loaded THEN FALSE
  ELSE xt.dev = fi.dev /\ xt.rdev = fi.rdev /\ xt.ino = fi.ino

\* isEntrySeen(nm, fi) run in one piece: [seen: the result, map: the map after]
isEntrySeen(m, nm, fi) ==
  LET key == InodeKey(fi)
      val == [nm |-> nm, fi |-> fi]
  IN [ seen |-> SeenResult(LoadOrStoreLoaded(m, key),
                           LoadOrStoreActual(m, key, val).fi, fi),
       map  |-> LoadOrStoreMap(m, key, val) ]

\* ------------------------------------------------- text: the manifest codec
\* A string is a sequence of one-character strings.
HexDigits == <<"0", "1", "2", "3", "4", "5", "6", "7", "8", "9",
               "a", "b", "c", "d", "e", "f">>
DecDigits == <<"0", "1", "2", "3", "4", "5", "6", "7", "8", "9">>

\* unicode.IsSpace on the characters of the model
IsSpace(c) == c \in {" ", "\t", "\n", "\r", "\f"}

\* fmt's %x of a byte slice: two lower-case hex digits per byte
RECURSIVE FmtHex(_)
FmtHex(bytes) ==
  IF bytes = <<>> THEN <<>>
  ELSE <<HexDigits[(Head(bytes) \div 16) + 1], HexDigits[(Head(bytes) % 16) + 1]>>
       \o FmtHex(Tail(bytes))

\* fmt's %d of a non-negative integer
RECURSIVE FmtDec(_)
FmtDec(n) ==
  IF n < 10 THEN <<DecDigits[n + 1]>>
  ELSE FmtDec(n \div 10) \o <<DecDigits[(n % 10) + 1]>>

\* the entry line the generator writes: fmt.Fprintf(fd, "%x|%d|%s\n", ...)
EntryLine(sum, sz, nm) ==
  FmtHex(sum) \o <<"|">> \o FmtDec(sz) \o <<"|">> \o nm \o <<"\n">>

\* bufio.Scanner with ScanLines: the lines of a text, each without its line
\* end (a final line needs no newline; an empty final line is not a line)
RECURSIVE ScanFrom(_, _)
ScanFrom(text, cur) ==
  IF text = <<>> THEN (IF cur = <<>> THEN <<>> ELSE <<cur>>)
  ELSE IF Head(text) = "\n"
       THEN <<IF cur # <<>> /\ cur[Len(cur)] = "\r"
              THEN SubSeq(cur, 1, Len(cur) - 1) ELSE cur>>
            \o ScanFrom(Tail(text), <<>>)
       ELSE ScanFrom(Tail(text), Append(cur, Head(text)))

ScanLines(text) == ScanFrom(text, <<>>)

\* strings.TrimSpace
RECURSIVE TrimLeft(_)
TrimLeft(s) ==
  IF s # <<>> /\ IsSpace(Head(s)) THEN TrimLeft(Tail(s)) ELSE s

RECURSIVE TrimRight(_)
TrimRight(s) ==
  IF s # <<>> /\ IsSpace(s[Len(s)]) THEN TrimRight(SubSeq(s, 1, Len(s) - 1))
  ELSE s

TrimSpace(s) == TrimRight(TrimLeft(s))

\* strings.IndexRune(s, c), 1-based; 0 when c is not in s (Go: -1)
IndexRune(s, c) ==
  IF \E i \in 1 .. Len(s) : s[i] = c
  THEN CHOOSE i \in 1 .. Len(s) : s[i] = c /\ \A j \in 1 .. i - 1 : s[j] # c
  ELSE 0

DigitValue(c) == (CHOOSE i \in 1 .. 10 : DecDigits[i] = c) - 1

IsDigit(c) == \E i \in 1 .. 10 : DecDigits[i] = c

RECURSIVE DecValue(_)
DecValue(s) ==
  IF s = <<>> THEN 0
  ELSE 10 * DecValue(SubSeq(s, 1, Len(s) - 1)) + DigitValue(s[Len(s)])

\* strconv.ParseInt(s, 10, 64) on the short strings of the model (no value
\* here is near the 64-bit range): an optional sign, then one or more digits
ParseInt(s) ==
  LET signed == s # <<>> /\ s[1] \in {"+", "-"}
      digits == IF signed THEN Tail(s) ELSE s
  IN IF digits = <<>> \/ \E i \in 1 .. Len(digits) : ~IsDigit(digits[i])
     THEN [ok |-> FALSE, val |-> 0]
     ELSE [ok |-> TRUE,
           val |-> IF signed /\ s[1] = "-" THEN 0 - DecValue(digits)
                   ELSE DecValue(digits)]

\* the single-character escapes of strconv.UnquoteChar inside a "..." string
\* that the model's alphabets can form (\a \b \v and the numeric escapes need
\* characters the alphabets do not hold)
EscapeOf == [n |-> "\n", t |-> "\t", r |-> "\r", f |-> "\f"]

\* the body of a double-quoted string, escapes replaced; fails on an
\* unescaped quote or newline and on an unknown or cut-off escape
RECURSIVE UnquoteBody(_)
UnquoteBody(s) ==
  IF s = <<>> THEN [ok |-> TRUE, str |-> <<>>]
  ELSE IF Head(s) \in {"\"", "\n"} THEN [ok |-> FALSE, str |-> <<>>]
  ELSE IF Head(s) # "\\"
       THEN LET r == UnquoteBody(Tail(s))
            IN [ok |-> r.ok, str |-> <<Head(s)>> \o r.str]
  ELSE IF Len(s) < 2 THEN [ok |-> FALSE, str |-> <<>>]
  ELSE LET c == s[2]
           r == UnquoteBody(SubSeq(s, 3, Len(s)))
       IN IF c \in {"\\", "\""}
          THEN [ok |-> r.ok, str |-> <<c>> \o r.str]
          ELSE IF c \in DOMAIN EscapeOf
          THEN [ok |-> r.ok, str |-> <<EscapeOf[c]>> \o r.str]
          ELSE [ok |-> FALSE, str |-> <<>>]

\* strconv.Unquote(s) for s starting with a double quote
Unquote(s) ==
  IF Len(s) < 2 \/ s[1] # "\"" \/ s[Len(s)] # "\""
  THEN [ok |-> FALSE, str |-> <<>>]
  ELSE UnquoteBody(SubSeq(s, 2, Len(s) - 1))

\* strings.Split(s, sep) for a one-character sep: the pieces between the
\* separators, one more than there are separators
RECURSIVE SplitFrom(_, _, _)
SplitFrom(s, sep, cur) ==
  IF s = <<>> THEN <<cur>>
  ELSE IF Head(s) = sep THEN <<cur>> \o SplitFrom(Tail(s), sep, <<>>)
  ELSE SplitFrom(Tail(s), sep, Append(cur, Head(s)))

Split(s, sep) == SplitFrom(s, sep, <<>>)

\* const MAGIC = "#!ghash"
MAGIC == <<"#", "!", "g", "h", "a", "s", "h">>

\* the names of the Hashes table
Hashes ==
  { <<"s", "h", "a", "2", "5", "6">>,
    <<"s", "h", "a", "5", "1", "2">>,
    <<"s", "h", "a", "3">>,
    <<"s", "h", "a", "3", "-", "2", "5", "6">>,
    <<"s", "h", "a", "3", "-", "5", "1", "2">>,
    <<"b", "l", "a", "k", "e", "2", "s">>,
    <<"b", "l", "a", "k", "e", "2", "b">>,
    <<"b", "l", "a", "k", "e", "2", "b", "-", "2", "5", "6">>,
    <<"b", "l", "a", "k", "e", "2", "b", "-", "5", "1", "2">>,
    <<"b", "l", "a", "k", "e", "3">> }

\* --------------------------------------------------- the filesystem (verify)
\* What os.Stat returns for a path named by a manifest, and what hashFile
\* reads there: f is a readable file of 1 byte; g cannot be opened; t shrinks
\* to 1 byte between its stat and its hashing; d is a directory.
VFiles ==
  [ f |-> [mode |-> "reg", size |-> 1, sum |-> <<171>>, read |-> 1, open |-> TRUE],
    g |-> [mode |-> "reg", size |-> 1, sum |-> <<171>>, read |-> 1, open |-> FALSE],
    t |-> [mode |-> "reg", size |-> 2, sum |-> <<171>>, read |-> 1, open |-> TRUE],
    d |-> [mode |-> "dir", size |-> 0, sum |-> <<>>, read |-> 0, open |-> FALSE] ]

\* the filesystem as a map from path (a string of the model) to file
VFS == [p \in {<<n>> : n \in DOMAIN VFiles} |-> VFiles[p[1]]]

\* the zero value of a string used as an error prefix, and a set prefix
\* fmt.Sprintf("%s: %d", nm, num)
NoPref == [nm |-> "", num |-> 0]

NoDatum == [file |-> <<>>, size |-> 0, expsum |-> <<>>, errPrefix |-> NoPref]

\* parseLine(line, errpref), the text half: trim, split on the first two '|',
\* parse the size, unquote a name that starts with a double quote.
\* [st: "ok" | "err" | "panic", kind: the error, csum, size, fn]
ParseFields(line) ==
  LET l0 == TrimSpace(line)
      i  == IndexRune(l0, "|")
      csum == SubSeq(l0, 1, i - 1)
      l1 == SubSeq(l0, i + 1, Len(l0))
      j  == IndexRune(l1, "|")
      sz == ParseInt(SubSeq(l1, 1, j - 1))
      fn0 == SubSeq(l1, j + 1, Len(l1))
      uq == Unquote(fn0)
      bad(s, k) == [st |-> s, kind |-> k, csum |-> <<>>, size |-> 0, fn |-> <<>>]
  IN IF i = 0 THEN bad("err", "malformed checksum")
     ELSE IF j = 0 THEN bad("err", "malformed file size")
     ELSE IF ~sz.ok THEN bad("err", "malformed line; size")
     ELSE IF fn0 = <<>> THEN bad("panic", "index out of range")
     ELSE IF fn0[1] = "\"" /\ ~uq.ok THEN bad("err", "malformed line; filename")
     ELSE [st |-> "ok", kind |-> "", csum |-> csum, size |-> sz.val,
           fn |-> IF fn0[1] = "\"" THEN uq.str ELSE fn0]

\* parseLine, the filesystem half: os.Stat(fn), IsRegular, fi.Size() != sz;
\* the error kind, "" when the entry passes
StatChecksNoSize(fn, sz, fs) ==
  IF fn \notin DOMAIN fs THEN "stat"
  ELSE IF fs[fn].mode # "reg" THEN "not a file"
  ELSE ""
StatChecks(fn, sz, fs) ==
  IF fn \notin DOMAIN fs THEN "stat"
  ELSE IF fs[fn].mode # "reg" THEN "not a file"
  ELSE IF fs[fn].size # sz THEN "size mismatch"
  ELSE ""

\* parseLine(line, errpref) against the filesystem fs:
\* [st, kind, pref: the error's prefix, nm: the name in the error, d: the datum]
ParseLine(line, errpref, fs) ==
  LET f == ParseFields(line)
      k == StatChecks(f.fn, f.size, fs)
  IN IF f.st # "ok"
     THEN [st |-> f.st, kind |-> f.kind, pref |-> errpref, nm |-> <<>>,
           d |-> NoDatum]
     ELSE IF k # ""
     THEN [st |-> "err", kind |-> k, pref |-> errpref, nm |-> f.fn,
           d |-> NoDatum]
     ELSE [st |-> "ok", kind |-> "", pref |-> errpref, nm |-> f.fn,
           d |-> [file |-> f.fn, size |-> f.size, expsum |-> f.csum,
                  errPrefix |-> NoPref]]

\* hashFile(fn, hgen) on fs: [ok, sum, sz]
HashFile(fs, fn) ==
  IF fn \notin DOMAIN fs \/ ~fs[fn].open THEN [ok |-> FALSE, sum |-> <<>>, sz |-> 0]
  ELSE [ok |-> TRUE, sum |-> fs[fn].sum, sz |-> fs[fn].read]

\* subtle.ConstantTimeCompare(x, y): 1 iff equal; 0 at once on unequal lengths,
\* else the OR of the XOR of every byte pair, with no early exit
AlwaysEqual(x, y) == 1
ConstantTimeCompare(x, y) ==
  IF Len(x) # Len(y) THEN 0
  ELSE IF \A i \in 1 .. Len(x) : x[i] = y[i] THEN 1 ELSE 0

\* verifyFile(d, hgen) on fs: [ok, and the error: kind, pref, nm]
VerifyFile(d, fs) ==
  LET h == HashFile(fs, d.file)
      csum == FmtHex(h.sum)
      bad(k) == [ok |-> FALSE, kind |-> k, pref |-> d.errPrefix, nm |-> d.file]
  IN IF ~h.ok THEN bad("can't hash")
     ELSE IF d.size # h.sz THEN bad("hash size mismatch")
     ELSE IF ConstantTimeCompare(csum, d.expsum) # 1 THEN bad("file modified")
     ELSE [ok |-> TRUE, kind |-> "", pref |-> d.errPrefix, nm |-> d.file]

\* ------------------------------------------------------------------- state
VARIABLES
  mode,       \* "args": a processArgs run; "verify": a doVerify run; "gen":
              \* a run of main that generates a manifest
  args,       \* the producer's input: processArgs' name list; in doVerify
              \* the entry lines rd.Scan() yields after the header
  follow,     \* followSymlinks
  idx,        \* the producer's position in its input (1-based)
  dpc,        \* the producer goroutine: "off" | "loop" | "done" | "dead"
  seen,       \* symlinkResolver.seen: inode key -> first record stored
  ch,         \* the work channel's buffer
  chClosed,   \* close(ch) has run
  errch,      \* the error channel's buffer
  errClosed,  \* close(errch) has run
  wpc,        \* each worker: "off" | "recv" | "apply" | "senderr" | "done" |
              \* "dead"
  witem,      \* the item a worker holds
  werr,       \* the error a worker is about to send
  errs,       \* the aggregator's list
  apc,        \* the aggregator goroutine: "off" | "drain" | "done" | "dead"
  mpc,        \* the calling goroutine: "header" | "wrkWait" | "closeErr" |
              \* "errWait" | "done"; "died" after Die, "dead" after a panic
  ret,        \* what the call returned
  sentErrs,   \* history: every error sent on errch, in send order
  admitted,   \* history: every item sent on ch, in send order
  applied,    \* history: item id -> number of times the action ran on it
  failed,     \* history: item id -> number of times the action failed on it
  trace,      \* history: how the producer left each input position it handled
  hdr,        \* doVerify: the lines rd.Scan() yields before the entries (the
              \* header line, or none on an empty input)
  cin,        \* codec run: the (sum, sz, nm) the generator writes
  ctext,      \* codec run: the text written
  cout,       \* codec run: parseLine's result for every line scanned back
  cpc,        \* codec run: "off" | "new" | "written" | "read"
  spc,        \* tracker run: each isEntrySeen call: "idle" | "stored" | "ret"
  sarg,       \* tracker run: the name a call was made with
  sld,        \* tracker run: what LoadOrStore returned to a call
  sres,       \* tracker run: what a call returned
  firstStore, \* history: inode key -> the record of the first call on the key
  rch,        \* generation: the result channel's buffer
  rchClosed,  \* generation: close(ch) of the result channel has run
  wres,       \* generation: the result a worker is about to send
  out,        \* generation: the lines written to the output
  opc,        \* generation: the writer goroutine: "off" | "write" | "done" |
              \* "failed"
  exit,       \* generation: the status the process exited with
  run,        \* the number of processArgs invocations that ended before the
              \* current one
  prev,       \* history: what the previous invocation sent on ch
  prevTrace,  \* history: how the previous invocation's producer left each
              \* input position
  dfiles,     \* finddup: the files the walk hands to the callback
  fpc,        \* finddup: the callback of each file: "off" | "new" | "load" |
              \* "append" | "store" | "done" | "err"
  fparts,     \* finddup: the parts of the slice header a callback has loaded
              \* (or stored) so far
  fhdr,       \* finddup: a callback's copy of the slice header
  dups,       \* finddup: checksum -> the slice header the map's pointer leads to
  heap,       \* finddup: the backing arrays allocated so far
  visited,    \* finddup: the keys dups.Range has visited
  rpt,        \* finddup: the groups printed, in print order
  cmp,        \* subtle.ConstantTimeCompare on one computed digest and two
              \* expected ones: the arguments, and per call the loop index,
              \* the accumulator v, the bytes combined so far and the result
  du,         \* godu: the arguments, the records walked, the loop position,
              \* linkmap, sizes and what was counted
  hx          \* hexlify in b64 mode: the reads still to come, the rest of
              \* the slice being written, and the output

vars == <<mode, args, follow, idx, dpc, seen, ch, chClosed, errch, errClosed,
          wpc, witem, werr, errs, apc, mpc, ret, sentErrs, admitted, applied,
          failed, trace, hdr, cin, ctext, cout, cpc, spc, sarg, sld, sres, firstStore,
          rch, rchClosed, wres, out, opc, exit, run, prev, prevTrace,
          dfiles, fpc, fparts, fhdr, dups, heap, visited, rpt, cmp, du, hx>>

\* what main adds to the pipeline when it generates a manifest
genVars == <<rch, rchClosed, wres, out, opc, exit>>
\* what a caller that invokes processArgs again keeps of the earlier call
runVars == <<run, prev, prevTrace>>
\* finddup
dupVars == <<dfiles, fpc, fparts, fhdr, dups, heap, visited, rpt>>
\* the variables of the programs around processArgs and doVerify
\* the digest comparison, godu and hexlify
moreVars == <<cmp, du, hx>>
extVars == <<genVars, runVars, dupVars, moreVars>>
\* the pipeline's variables but the tracker's map
pipeVars == <<mode, args, follow, idx, dpc, ch, chClosed, errch, errClosed,
              wpc, witem, werr, errs, apc, mpc, ret, sentErrs, admitted,
              applied, failed, trace, hdr, extVars>>
codecVars == <<cin, ctext, cout, cpc>>
callVars == <<spc, sarg, sld, sres, firstStore>>
auxVars == <<cin, ctext, cout, cpc, spc, sarg, sld, sres, firstStore, extVars>>

Workers == 1 .. nWorkers

NoItem == [path |-> "", fi |-> NoInfo]
\* an error value: what it says (kind), the name it mentions, its prefix
NoErr  == [kind |-> "", nm |-> "", pref |-> NoPref]
ErrOf(k, n) == [kind |-> k, nm |-> n, pref |-> NoPref]
\* the nil error of a run (doVerify's errors name files by their text)
NilErr(m) == IF m = "verify" THEN ErrOf("", <<>>) ELSE NoErr

\* sequences over S of length at most n
SeqUpTo(S, n) == UNION {[1 .. k -> S] : k \in 0 .. n}

EmptyMap == [k \in {} |-> NoItem]

Callers == 1 .. NCallers

NoRec == [nm |-> "", fi |-> NoInfo]
NoLoad == [loaded |-> FALSE, x |-> NoRec]

\* no codec run and no tracker run is going on
CodecIdle == cin = <<>> /\ ctext = <<>> /\ cout = <<>> /\ cpc = "off"

CallsIdle ==
  /\ spc = [c \in Callers |-> "off"]
  /\ sarg = [c \in Callers |-> ""]
  /\ sld = [c \in Callers |-> NoLoad]
  /\ sres = [c \in Callers |-> FALSE]
  /\ firstStore = EmptyMap

\* the zero value of an otuple, and the status of a process still running
NoTuple == [nm |-> "", sz |-> 0, sum |-> <<>>]
NoExit == -1

\* main is not generating a manifest
GenIdle ==
  /\ rch = <<>> /\ rchClosed = FALSE
  /\ wres = [w \in Workers |-> NoTuple]
  /\ out = <<>> /\ opc = "off" /\ exit = NoExit

\* no earlier processArgs invocation
RunsIdle == run = 0 /\ prev = <<>> /\ prevTrace = <<>>

\* finddup is not running
DupIdle ==
  /\ dfiles = {} /\ fpc = <<>> /\ fparts = <<>> /\ fhdr = <<>>
  /\ dups = <<>> /\ heap = <<>> /\ visited = {} /\ rpt = <<>>

\* no digest comparison, no godu and no hexlify is running
MoreIdle == cmp = <<>> /\ du = <<>> /\ hx = <<>>

ExtIdle == GenIdle /\ RunsIdle /\ DupIdle /\ MoreIdle

AuxIdle == CodecIdle /\ CallsIdle /\ ExtIdle

\* no pipeline is running
PipeUnused ==
  /\ args = <<>> /\ follow = FALSE /\ idx = 1 /\ dpc = "done"
  /\ ch = <<>> /\ chClosed = FALSE /\ errch = <<>> /\ errClosed = FALSE
  /\ wpc = [w \in Workers |-> "off"]
  /\ witem = [w \in Workers |-> NoItem]
  /\ werr = [w \in Workers |-> NoErr]
  /\ errs = <<>> /\ apc = "done" /\ ret = <<>>
  /\ sentErrs = <<>> /\ admitted = <<>>
  /\ applied = EmptyMap /\ failed = EmptyMap
  /\ trace = <<>> /\ hdr = <<>>

PipeIdle == mode = "none" /\ mpc = "done" /\ PipeUnused /\ ExtIdle

\* ------------------------------------------------------ processArgs producer
\* symlinkResolver.resolve(nm, fi)
resolveNoRecheck(m, nm) ==
  LET ev == EvalSymlinks(nm)
  IN IF ~ev.ok \/ ~Stat(ev.path).ok
     THEN [err |-> TRUE, nm |-> "", fi |-> NoInfo, map |-> m]
     ELSE IF Stat(ev.path).fi.mode # "reg"
     THEN [err |-> FALSE, nm |-> "", fi |-> NoInfo, map |-> m]
     ELSE [err |-> FALSE, nm |-> ev.path, fi |-> Stat(ev.path).fi, map |-> m]
resolve(m, nm) ==
  LET ev == EvalSymlinks(nm)
  IN IF ~ev.ok
     THEN [err |-> TRUE, nm |-> "", fi |-> NoInfo, map |-> m]
     ELSE LET st == Stat(ev.path)
          IN IF ~st.ok
             THEN [err |-> TRUE, nm |-> "", fi |-> NoInfo, map |-> m]
             ELSE LET s == isEntrySeen(m, ev.path, st.fi)
                  IN IF s.seen \/ st.fi.mode # "reg"
                     THEN [err |-> FALSE, nm |-> "", fi |-> NoInfo, map |-> s.map]
                     ELSE [err |-> FALSE, nm |-> ev.path, fi |-> st.fi,
                           map |-> s.map]

\* the switch on the (possibly resolved) mode that ends a loop iteration
Classify(m, nm, fi) ==
  CASE fi.mode = "dir" ->
         [out |-> "err", err |-> ErrOf("skipping dir", nm),
          item |-> NoItem, map |-> m]
    [] fi.mode = "reg" ->
         [out |-> "admit", err |-> NoErr,
          item |-> [path |-> nm, fi |-> fi], map |-> m]
    [] OTHER ->
         [out |-> "err", err |-> ErrOf("skipping non-file", nm),
          item |-> NoItem, map |-> m]

\* the branch taken for a symlink when links are followed: resolve, then the
\* error check (nm is already the name resolve returned, "" on an error), the
\* empty-name check, and the switch on the resolved mode
FollowLinkKeepName(m, nm) ==
  LET r == resolve(m, nm)
  IN IF r.err
     THEN [out |-> "err", err |-> ErrOf("resolve", r.nm),
           item |-> NoItem, map |-> r.map]
     ELSE IF r.nm = ""
     THEN [out |-> "skip", err |-> NoErr, item |-> NoItem, map |-> r.map]
     ELSE Classify(r.map, nm, r.fi)
FollowLink(m, nm) ==
  LET r == resolve(m, nm)
  IN IF r.err
     THEN [out |-> "err", err |-> ErrOf("resolve", r.nm),
           item |-> NoItem, map |-> r.map]
     ELSE IF r.nm = ""
     THEN [out |-> "skip", err |-> NoErr, item |-> NoItem, map |-> r.map]
     ELSE Classify(r.map, r.nm, r.fi)

\* if (m & os.ModeSymlink) > 0 { if !followSymlinks { ... continue } ... }
OnSymlinkIgnoreFlag(m, nm, fol) == FollowLink(m, nm)
OnSymlink(m, nm, fol) ==
  IF ~fol
  THEN [out |-> "err", err |-> ErrOf("skipping symlink", nm),
        item |-> NoItem, map |-> m]
  ELSE FollowLink(m, nm)

\* one iteration of the producer's loop over args, up to its send (if any)
DispatchOne(m, nm, fol) ==
  LET ls == Lstat(nm)
  IN IF ~ls.ok
     THEN [out |-> "err", err |-> ErrOf("lstat", nm),
           item |-> NoItem, map |-> m]
     ELSE LET s == isEntrySeen(m, nm, ls.fi)
          IN IF s.seen
             THEN [out |-> "skip", err |-> NoErr, item |-> NoItem, map |-> s.map]
             ELSE IF ls.fi.mode = "symlink"
             THEN OnSymlink(s.map, nm, fol)
             ELSE Classify(s.map, nm, ls.fi)

Cur == DispatchOne(seen, args[idx], follow)

\* the runs whose producer is processArgs' loop over a name list
ListModes == {"args", "gen"}

\* the history entry of a handled input position: the name (or line) read
\* there, how the iteration ended, and the error it sent if any
Handled(nm, o, k) == [nm |-> nm, out |-> o, kind |-> k]

\* `continue`: the loop goes on with the next name
BreakLoop(i) == Len(args) + 1
Continue(i) == i + 1

\* the loop over the input ends: `for _, nm := range args` has no name left,
\* rd.Scan() finds no line left
RangeOverEarly(i, list) == TRUE
RangeOver(i, list) == i > Len(list)

\* an iteration that ends in `continue` without a send
DispatchSkip ==
  /\ mode \in ListModes /\ dpc = "loop" /\ idx <= Len(args)
  /\ Cur.out = "skip"
  /\ seen' = Cur.map
  /\ trace' = Append(trace, Handled(args[idx], Cur.out, Cur.err.kind))
  /\ idx' = Continue(idx)
  /\ UNCHANGED <<auxVars, hdr>>
  /\ UNCHANGED <<mode, args, follow, dpc, ch, chClosed, errch, errClosed, wpc,
                 witem, werr, errs, apc, mpc, ret, sentErrs, admitted, applied,
                 failed>>

\* an iteration that ends in errch <- fmt.Errorf(...)
DispatchReject ==
  /\ mode \in ListModes /\ dpc = "loop" /\ idx <= Len(args)
  /\ Cur.out = "err"
  /\ CanSend(errch, ErrChanCap)
  /\ seen' = Cur.map
  /\ errch' = Append(errch, Cur.err)
  /\ sentErrs' = Append(sentErrs, Cur.err)
  /\ trace' = Append(trace, Handled(args[idx], Cur.out, Cur.err.kind))
  /\ idx' = Continue(idx)
  /\ UNCHANGED <<auxVars, hdr>>
  /\ UNCHANGED <<mode, args, follow, dpc, ch, chClosed, errClosed, wpc, witem,
                 werr, errs, apc, mpc, ret, admitted, applied, failed>>

\* an iteration that ends in ch <- walk.Result{Path: nm, Stat: fi}
DispatchAdmit ==
  /\ mode \in ListModes /\ dpc = "loop" /\ idx <= Len(args)
  /\ Cur.out = "admit"
  /\ CanSend(ch, nWorkers)
  /\ seen' = Cur.map
  /\ ch' = Append(ch, Cur.item)
  /\ admitted' = Append(admitted, Cur.item)
  /\ trace' = Append(trace, Handled(args[idx], Cur.out, Cur.err.kind))
  /\ idx' = idx + 1
  /\ UNCHANGED <<auxVars, hdr>>
  /\ UNCHANGED <<mode, args, follow, dpc, chClosed, errch, errClosed, wpc,
                 witem, werr, errs, apc, mpc, ret, sentErrs, applied, failed>>

\* close(ch) after the loop
DispatchClose ==
  /\ mode \in ListModes /\ dpc = "loop" /\ RangeOver(idx, args)
  /\ chClosed' = TRUE
  /\ dpc' = "done"
  /\ UNCHANGED <<auxVars, hdr, trace>>
  /\ UNCHANGED <<mode, args, follow, idx, seen, ch, errch, errClosed, wpc,
                 witem, werr, errs, apc, mpc, ret, sentErrs, admitted, applied,
                 failed>>

\* ------------------------------------------------------------------ workers
\* the id under which the histories count an item: its path in processArgs,
\* its manifest line in doVerify
ItemId(it) == IF mode \in ListModes THEN it.path ELSE it.line

\* a channel's queue once a receive has taken its first element
LeftInPlace(q) == q
AfterRecv(q) == Tail(q)

\* for r := range in: a worker receives the next item
WorkerRecv(w) ==
  /\ wpc[w] = "recv"
  /\ Len(ch) > 0
  /\ witem' = [witem EXCEPT ![w] = Head(ch)]
  /\ ch' = AfterRecv(ch)
  /\ wpc' = [wpc EXCEPT ![w] = "apply"]
  /\ UNCHANGED <<auxVars, hdr, trace>>
  /\ UNCHANGED <<mode, args, follow, idx, dpc, seen, chClosed, errch, errClosed,
                 werr, errs, apc, mpc, ret, sentErrs, admitted, applied, failed>>

\* err := apply(r) returning nil: the worker goes back to the range loop
WorkerApplyOk(w) ==
  /\ mode = "args"
  /\ wpc[w] = "apply"
  /\ applied' = [applied EXCEPT ![ItemId(witem[w])] = @ + 1]
  /\ witem' = [witem EXCEPT ![w] = NoItem]
  /\ wpc' = [wpc EXCEPT ![w] = "recv"]
  /\ UNCHANGED <<auxVars, hdr, trace>>
  /\ UNCHANGED <<mode, args, follow, idx, dpc, seen, ch, chClosed, errch,
                 errClosed, werr, errs, apc, mpc, ret, sentErrs,
                 admitted, failed>>

\* err := apply(r) returning an error: the worker is about to send it
WorkerApplyFail(w) ==
  /\ mode = "args"
  /\ wpc[w] = "apply"
  /\ applied' = [applied EXCEPT ![ItemId(witem[w])] = @ + 1]
  /\ failed' = [failed EXCEPT ![ItemId(witem[w])] = @ + 1]
  /\ werr' = [werr EXCEPT ![w] = ErrOf("apply", witem[w].path)]
  /\ witem' = [witem EXCEPT ![w] = NoItem]
  /\ wpc' = [wpc EXCEPT ![w] = "senderr"]
  /\ UNCHANGED <<auxVars, hdr, trace>>
  /\ UNCHANGED <<mode, args, follow, idx, dpc, seen, ch, chClosed, errch,
                 errClosed, errs, apc, mpc, ret, sentErrs, admitted>>

\* where a worker goes once its error is sent: back to the range loop
ExitAfterError == "done"
AfterSendErr == "recv"

\* errch <- err
WorkerSendErr(w) ==
  /\ wpc[w] = "senderr"
  /\ CanSend(errch, ErrChanCap)
  /\ errch' = Append(errch, werr[w])
  /\ sentErrs' = Append(sentErrs, werr[w])
  /\ werr' = [werr EXCEPT ![w] = NilErr(mode)]
  /\ wpc' = [wpc EXCEPT ![w] = AfterSendErr]
  /\ UNCHANGED <<auxVars, hdr, trace>>
  /\ UNCHANGED <<mode, args, follow, idx, dpc, seen, ch, chClosed, errClosed,
                 witem, errs, apc, mpc, ret, admitted, applied, failed>>

\* the range loop ends on a closed, drained channel; wrkWait.Done()
WorkerExit(w) ==
  /\ wpc[w] = "recv"
  /\ Len(ch) = 0 /\ chClosed
  /\ wpc' = [wpc EXCEPT ![w] = "done"]
  /\ UNCHANGED <<auxVars, hdr, trace>>
  /\ UNCHANGED <<mode, args, follow, idx, dpc, seen, ch, chClosed, errch,
                 errClosed, witem, werr, errs, apc, mpc, ret, sentErrs,
                 admitted, applied, failed>>

\* ----------------------------------------------------- doVerify: the header
\* the first lines the manifests of the model start with
HeaderLines ==
  { <<"#", "!", "g", "h", "a", "s", "h", " ", "s", "h", "a", "2", "5", "6", " ", "v", "1">>,   \* as written by ghash
    <<"#", "!", "g", "h", "a", "s", "h", " ", "s", "h", "a", "2", "5", "6">>,                  \* two fields
    <<"#", "g", "h", "a", "s", "h", " ", "s", "h", "a", "2", "5", "6", " ", "v", "1">>,        \* another magic
    <<"#", "!", "g", "h", "a", "s", "h", " ", "m", "d", "5", " ", "v", "1">> }         \* an algorithm ghash does not have

\* what rd.Scan() yields before the entries: nothing on an empty input
HeaderCases == {<<>>} \cup {<<h>> : h \in HeaderLines}

\* the checks of doVerify on the first line, in order: the message of the
\* first one that fails, "" when the header is accepted
HeaderCheckAnyAlgo(h) ==
  IF h = <<>> THEN "can't read first line"
  ELSE LET subs == Split(h[1], " ")
       IN IF Len(subs) < 3 THEN "not enough fields in header"
          ELSE IF subs[1] # MAGIC THEN "Not a ghash file"
          ELSE ""
HeaderCheck(h) ==
  IF h = <<>> THEN "can't read first line"
  ELSE LET subs == Split(h[1], " ")
       IN IF Len(subs) < 3 THEN "not enough fields in header"
          ELSE IF subs[1] # MAGIC THEN "Not a ghash file"
          ELSE IF subs[2] \notin Hashes THEN "unsupported hash algo"
          ELSE ""

\* Die(...): the message is printed and the process ends; where the calling
\* goroutine is afterwards
Die == "died"

\* a header check failed: Die(...)
HeaderDie ==
  /\ mode = "verify" /\ mpc = "header"
  /\ HeaderCheck(hdr) # ""
  /\ mpc' = Die
  /\ UNCHANGED <<auxVars, hdr, trace>>
  /\ UNCHANGED <<mode, args, follow, idx, dpc, seen, ch, chClosed, errch,
                 errClosed, wpc, witem, werr, errs, apc, ret, sentErrs,
                 admitted, applied, failed>>

\* the header is accepted: the workers, the feeder and the error harvester
\* are started
HeaderAccept ==
  /\ mode = "verify" /\ mpc = "header"
  /\ HeaderCheck(hdr) = ""
  /\ wpc' = [w \in Workers |-> "recv"]
  /\ dpc' = "loop"
  /\ apc' = "drain"
  /\ mpc' = "wrkWait"
  /\ UNCHANGED <<auxVars, hdr, trace>>
  /\ UNCHANGED <<mode, args, follow, idx, seen, ch, chClosed, errch,
                 errClosed, witem, werr, errs, ret, sentErrs, admitted,
                 applied, failed>>

\* ----------------------------------------------------- doVerify: the feeder
\* the entry lines the manifests of the model are made of
ManifestLines ==
  { <<"a", "b", "|", "1", "|", "f">>,        \* f as recorded
    <<"c", "d", "|", "1", "|", "f">>,        \* f with another digest
    <<"a", "b", "|", "2", "|", "f">>,        \* f with another size
    <<"a", "b", "|", "1", "|", "g">>,        \* a file that cannot be opened
    <<"a", "b", "|", "2", "|", "t">>,        \* a file that shrinks before hashing
    <<"a", "b", "|", "0", "|", "d">>,        \* a directory
    <<"a", "b">>,                            \* no delimiter
    <<"a", "b", "|", "1", "|">> }            \* an empty name

\* errPref := fmt.Sprintf("%s: %d", nm, num) for the entry at position i
ErrPref(i) == [nm |-> "manifest", num |-> i + 1]
\* parseLine on each entry line of the model's manifests (it depends on the
\* line's text and the filesystem only; the prefix is set per position)
ParsedLines == [l \in ManifestLines |-> ParseLine(l, NoPref, VFS)]

\* d, err := parseLine(rd.Text(), errPref) for the line at the feeder's position
CurLine == [ParsedLines[args[idx]] EXCEPT !.pref = ErrPref(idx)]

\* parseLine failed: errch <- err; continue
FeedReject ==
  /\ mode = "verify" /\ dpc = "loop" /\ idx <= Len(args)
  /\ CurLine.st = "err"
  /\ CanSend(errch, ErrChanCap)
  /\ LET e == [kind |-> CurLine.kind, nm |-> CurLine.nm, pref |-> CurLine.pref]
     IN /\ errch' = Append(errch, e)
        /\ sentErrs' = Append(sentErrs, e)
  /\ failed' = [failed EXCEPT ![idx + 1] = @ + 1]
  /\ trace' = Append(trace, Handled(args[idx], "err", CurLine.kind))
  /\ idx' = idx + 1
  /\ UNCHANGED <<auxVars, hdr>>
  /\ UNCHANGED <<mode, args, follow, dpc, seen, ch, chClosed, errClosed, wpc,
                 witem, werr, errs, apc, mpc, ret, admitted, applied>>

\* parseLine indexes the empty name (fn[0]): the runtime panics in the feeder
\* goroutine, nothing recovers it, and the process ends with all its goroutines
FeedPanic ==
  /\ mode = "verify" /\ dpc = "loop" /\ idx <= Len(args)
  /\ CurLine.st = "panic"
  /\ trace' = Append(trace, Handled(args[idx], "panic", CurLine.kind))
  /\ dpc' = "dead"
  /\ wpc' = [w \in Workers |-> "dead"]
  /\ apc' = "dead"
  /\ mpc' = "dead"
  /\ UNCHANGED <<auxVars, hdr>>
  /\ UNCHANGED <<mode, args, follow, idx, seen, ch, chClosed, errch, errClosed,
                 witem, werr, errs, ret, sentErrs, admitted, applied, failed>>

\* parseLine succeeded: ch <- d (line: history only, the code's datum does
\* not carry its line)
FeedEnqueue ==
  /\ mode = "verify" /\ dpc = "loop" /\ idx <= Len(args)
  /\ CurLine.st = "ok"
  /\ CanSend(ch, nWorkers)
  /\ LET it == [file |-> CurLine.d.file, size |-> CurLine.d.size,
                expsum |-> CurLine.d.expsum, errPrefix |-> CurLine.d.errPrefix,
                line |-> idx + 1]
     IN /\ ch' = Append(ch, it)
        /\ admitted' = Append(admitted, it)
  /\ trace' = Append(trace, Handled(args[idx], "admit", ""))
  /\ idx' = idx + 1
  /\ UNCHANGED <<auxVars, hdr>>
  /\ UNCHANGED <<mode, args, follow, dpc, seen, chClosed, errch, errClosed,
                 wpc, witem, werr, errs, apc, mpc, ret, sentErrs, applied,
                 failed>>

\* rd.Scan() returns false: close(ch); wg.Done()
FeedClose ==
  /\ mode = "verify" /\ dpc = "loop" /\ RangeOver(idx, args)
  /\ chClosed' = TRUE
  /\ dpc' = "done"
  /\ UNCHANGED <<auxVars, hdr, trace>>
  /\ UNCHANGED <<mode, args, follow, idx, seen, ch, errch, errClosed, wpc,
                 witem, werr, errs, apc, mpc, ret, sentErrs, admitted, applied,
                 failed>>

\* --------------------------------------------------- doVerify: worker bodies
\* verifyFile(d, hgen) returned nil
WorkerVerifyOk(w) ==
  /\ mode = "verify"
  /\ wpc[w] = "apply"
  /\ VerifyFile(witem[w], VFS).ok
  /\ applied' = [applied EXCEPT ![ItemId(witem[w])] = @ + 1]
  /\ witem' = [witem EXCEPT ![w] = NoItem]
  /\ wpc' = [wpc EXCEPT ![w] = "recv"]
  /\ UNCHANGED <<auxVars, hdr, trace>>
  /\ UNCHANGED <<mode, args, follow, idx, dpc, seen, ch, chClosed, errch,
                 errClosed, werr, errs, apc, mpc, ret, sentErrs,
                 admitted, failed>>

\* verifyFile(d, hgen) returned an error: the worker is about to send it
WorkerVerifyFail(w) ==
  /\ mode = "verify"
  /\ wpc[w] = "apply"
  /\ LET v == VerifyFile(witem[w], VFS)
     IN /\ ~v.ok
        /\ werr' = [werr EXCEPT ![w] =
                       [kind |-> v.kind, nm |-> v.nm, pref |-> v.pref]]
  /\ applied' = [applied EXCEPT ![ItemId(witem[w])] = @ + 1]
  /\ failed' = [failed EXCEPT ![ItemId(witem[w])] = @ + 1]
  /\ witem' = [witem EXCEPT ![w] = NoItem]
  /\ wpc' = [wpc EXCEPT ![w] = "senderr"]
  /\ UNCHANGED <<auxVars, hdr, trace>>
  /\ UNCHANGED <<mode, args, follow, idx, dpc, seen, ch, chClosed, errch,
                 errClosed, errs, apc, mpc, ret, sentErrs, admitted>>

\* errs = append(errs, err): the list once the aggregator has added an error
CollectFirst(es, e) == <<e>> \o es
Collect(es, e) == Append(es, e)

\* --------------------------------------------------------------- aggregator
\* for err := range ch { errs = append(errs, err) }
AggRecv ==
  /\ apc = "drain"
  /\ Len(errch) > 0
  /\ errs' = Collect(errs, Head(errch))
  /\ errch' = Tail(errch)
  /\ UNCHANGED <<auxVars, hdr, trace>>
  /\ UNCHANGED <<mode, args, follow, idx, dpc, seen, ch, chClosed, errClosed,
                 wpc, witem, werr, apc, mpc, ret, sentErrs, admitted, applied,
                 failed>>

\* the nil error
NilError == [kind |-> "nil", errs |-> <<>>]

\* errors.Join(errs...): one error that wraps the given errors, in order (none
\* of the errors received from the channel is nil)
ErrorsJoinFirst(es) == [kind |-> "join", errs |-> <<es[1]>>]
ErrorsJoin(es) == [kind |-> "join", errs |-> es]

\* if len(errs) > 0 { *e = errors.Join(errs...) }
JoinInto(e, es) == IF Len(es) > 0 THEN ErrorsJoin(es) ELSE e

\* the range loop ends on a closed, drained channel; the processArgs that
\* returns one error stores the merged error; errWait.Done()
AggExit ==
  /\ apc = "drain"
  /\ Len(errch) = 0 /\ errClosed
  /\ ret' = IF mode = "gen" THEN JoinInto(ret, errs) ELSE ret
  /\ apc' = "done"
  /\ UNCHANGED <<auxVars, hdr, trace>>
  /\ UNCHANGED <<mode, args, follow, idx, dpc, seen, ch, chClosed, errch,
                 errClosed, wpc, witem, werr, errs, mpc, sentErrs,
                 admitted, applied, failed>>

\* ------------------------------------------------------ the calling goroutine
\* the goroutines the worker wait group counts have all called Done
NoWaitForWorkers == TRUE
WaitGroupZero ==
  /\ \A w \in Workers : wpc[w] \in {"off", "done"}
  /\ mode = "verify" => dpc = "done"

\* wrkWait.Wait() / wg.Wait() returns
MainWait ==
  /\ mpc = "wrkWait"
  /\ WaitGroupZero
  /\ mpc' = "closeErr"
  /\ UNCHANGED <<auxVars, hdr, trace>>
  /\ UNCHANGED <<mode, args, follow, idx, dpc, seen, ch, chClosed, errch,
                 errClosed, wpc, witem, werr, errs, apc, ret, sentErrs,
                 admitted, applied, failed>>

\* close(errch)
MainCloseErr ==
  /\ mpc = "closeErr"
  /\ errClosed' = TRUE
  /\ mpc' = "errWait"
  /\ UNCHANGED <<auxVars, hdr, trace>>
  /\ UNCHANGED <<mode, args, follow, idx, dpc, seen, ch, chClosed, errch, wpc,
                 witem, werr, errs, apc, ret, sentErrs, admitted, applied,
                 failed>>

\* the exit code of doVerify: return 1 & len(errs)
ExitCode(n) == n % 2

\* what the call hands back once the aggregator is done: processArgs the
\* collected errors, doVerify the exit code
Returned(m, es) == IF m = "args" THEN es ELSE ExitCode(Len(es))

\* the processArgs that returns one error hands back err as the aggregator
\* left it
ReturnedErr(e) == e

\* the aggregator has called errWait.Done() / ewg.Done()
AggNotAwaited == TRUE
AggDone == apc = "done"

\* errWait.Wait() / ewg.Wait() returns and the call reads errs and returns
MainReturn ==
  /\ mpc = "errWait"
  /\ AggDone
  /\ ret' = IF mode = "gen" THEN ReturnedErr(ret) ELSE Returned(mode, errs)
  /\ mpc' = "done"
  /\ UNCHANGED <<auxVars, hdr, trace>>
  /\ UNCHANGED <<mode, args, follow, idx, dpc, seen, ch, chClosed, errch,
                 errClosed, wpc, witem, werr, errs, apc, sentErrs, admitted,
                 applied, failed>>

\* ------------------------------------------------- main: generate a manifest
\* what hashFile reads at the paths of the name lists: f and h are one file
\* of 1 byte, g is a file of 12 bytes, k cannot be opened
GFiles ==
  [ f |-> [mode |-> "reg", size |-> 1, sum |-> <<171>>, read |-> 1, open |-> TRUE],
    h |-> [mode |-> "reg", size |-> 1, sum |-> <<171>>, read |-> 1, open |-> TRUE],
    g |-> [mode |-> "reg", size |-> 12, sum |-> <<10>>, read |-> 12, open |-> TRUE],
    k |-> [mode |-> "reg", size |-> 3, sum |-> <<>>, read |-> 0, open |-> FALSE] ]
  @@ [n \in ManyNames |->
        [mode |-> "reg", size |-> 1, sum |-> <<171>>, read |-> 1, open |-> TRUE]]

\* the names the argument list of a generating run is drawn from
GenNames == {"f", "g", "k", "l", "ll", "p"}

\* the text of a path of the model
PathText(nm) == <<nm>>

\* the result channel: make(chan otuple, 16)
ResChanCap == 16

\* the first line of a manifest: fmt.Fprintf(fd, "%s %s %s\n", MAGIC, halgo,
\* ProductVersion)
GenHeader(halgo, version) ==
  MAGIC \o <<" ">> \o halgo \o <<" ">> \o version \o <<"\n">>

\* action: sum, sz, err := hashFile(r.Path, h) succeeds
WorkerHashOk(w) ==
  /\ mode = "gen"
  /\ wpc[w] = "apply"
  /\ HashFile(GFiles, witem[w].path).ok
  /\ LET r == HashFile(GFiles, witem[w].path)
     IN wres' = [wres EXCEPT ![w] =
                   [nm |-> witem[w].path, sz |-> r.sz, sum |-> r.sum]]
  /\ applied' = [applied EXCEPT ![ItemId(witem[w])] = @ + 1]
  /\ witem' = [witem EXCEPT ![w] = NoItem]
  /\ wpc' = [wpc EXCEPT ![w] = "sendres"]
  /\ UNCHANGED <<rch, rchClosed, out, opc, exit>>
  /\ UNCHANGED <<codecVars, callVars, runVars, dupVars, moreVars, hdr, trace>>
  /\ UNCHANGED <<mode, args, follow, idx, dpc, seen, ch, chClosed, errch,
                 errClosed, werr, errs, apc, mpc, ret, sentErrs,
                 admitted, failed>>

\* action: hashFile fails, the action returns its error
WorkerHashFail(w) ==
  /\ mode = "gen"
  /\ wpc[w] = "apply"
  /\ ~HashFile(GFiles, witem[w].path).ok
  /\ applied' = [applied EXCEPT ![ItemId(witem[w])] = @ + 1]
  /\ failed' = [failed EXCEPT ![ItemId(witem[w])] = @ + 1]
  /\ werr' = [werr EXCEPT ![w] = ErrOf("hash", witem[w].path)]
  /\ witem' = [witem EXCEPT ![w] = NoItem]
  /\ wpc' = [wpc EXCEPT ![w] = "senderr"]
  /\ UNCHANGED <<auxVars, hdr, trace>>
  /\ UNCHANGED <<mode, args, follow, idx, dpc, seen, ch, chClosed, errch,
                 errClosed, errs, apc, mpc, ret, sentErrs, admitted>>

\* action: ch <- otuple{r.Path, sz, sum}, then return nil
WorkerSendRes(w) ==
  /\ wpc[w] = "sendres"
  /\ ~rchClosed
  /\ CanSend(rch, ResChanCap)
  /\ rch' = Append(rch, wres[w])
  /\ wres' = [wres EXCEPT ![w] = NoTuple]
  /\ wpc' = [wpc EXCEPT ![w] = "recv"]
  /\ UNCHANGED <<rchClosed, out, opc, exit>>
  /\ UNCHANGED <<codecVars, callVars, runVars, dupVars, moreVars, hdr, trace>>
  /\ UNCHANGED <<mode, args, follow, idx, dpc, seen, ch, chClosed, errch,
                 errClosed, witem, werr, errs, apc, mpc, ret, sentErrs,
                 admitted, applied, failed>>

\* the writer goroutine: for o := range ch { fmt.Fprintf(fd, ...) } writes
WriterWrite ==
  /\ opc = "write"
  /\ Len(rch) > 0
  /\ LET o == Head(rch)
     IN out' = Append(out, EntryLine(o.sum, o.sz, PathText(o.nm)))
  /\ rch' = Tail(rch)
  /\ UNCHANGED <<rchClosed, wres, opc, exit>>
  /\ UNCHANGED <<codecVars, callVars, runVars, dupVars, moreVars, hdr, trace>>
  /\ UNCHANGED <<mode, args, follow, idx, dpc, seen, ch, chClosed, errch,
                 errClosed, wpc, witem, werr, errs, apc, mpc, ret, sentErrs,
                 admitted, applied, failed>>

\* the writer goroutine: fmt.Fprintf returns an error; the error is printed
\* and the goroutine returns (wg.Done() is deferred)
WriterFail ==
  /\ opc = "write"
  /\ Len(rch) > 0
  /\ rch' = Tail(rch)
  /\ opc' = "failed"
  /\ UNCHANGED <<rchClosed, wres, out, exit>>
  /\ UNCHANGED <<codecVars, callVars, runVars, dupVars, moreVars, hdr, trace>>
  /\ UNCHANGED <<mode, args, follow, idx, dpc, seen, ch, chClosed, errch,
                 errClosed, wpc, witem, werr, errs, apc, mpc, ret, sentErrs,
                 admitted, applied, failed>>

\* the writer goroutine: the range loop ends on a closed, drained channel;
\* fd.Close(), wg.Done()
WriterExit ==
  /\ opc = "write"
  /\ Len(rch) = 0 /\ rchClosed
  /\ opc' = "done"
  /\ UNCHANGED <<rch, rchClosed, wres, out, exit>>
  /\ UNCHANGED <<codecVars, callVars, runVars, dupVars, moreVars, hdr, trace>>
  /\ UNCHANGED <<mode, args, follow, idx, dpc, seen, ch, chClosed, errch,
                 errClosed, wpc, witem, werr, errs, apc, mpc, ret, sentErrs,
                 admitted, applied, failed>>

\* main: processArgs has returned; close(ch) (and Warn if err != nil)
GenCloseRes ==
  /\ mode = "gen" /\ mpc = "done"
  /\ rchClosed' = TRUE
  /\ mpc' = "wgWait"
  /\ UNCHANGED <<rch, wres, out, opc, exit>>
  /\ UNCHANGED <<codecVars, callVars, runVars, dupVars, moreVars, hdr, trace>>
  /\ UNCHANGED <<mode, args, follow, idx, dpc, seen, ch, chClosed, errch,
                 errClosed, wpc, witem, werr, errs, apc, ret, sentErrs,
                 admitted, applied, failed>>

\* Exit(code): the process ends with the status
Exit(code) == code

\* if err != nil { Exit(1) }; Exit(0)
GenStatusZero(e) == 0
GenStatus(e) == IF e # NilError THEN 1 ELSE 0

\* the writer has called wg.Done()
WriterNotAwaited == TRUE
WriterDone == opc \in {"done", "failed"}

\* main: wg.Wait() returns and the process exits
GenExit ==
  /\ mode = "gen" /\ mpc = "wgWait"
  /\ WriterDone
  /\ exit' = Exit(GenStatus(ret))
  /\ mpc' = "exited"
  /\ UNCHANGED <<rch, rchClosed, wres, out, opc>>
  /\ UNCHANGED <<codecVars, callVars, runVars, dupVars, moreVars, hdr, trace>>
  /\ UNCHANGED <<mode, args, follow, idx, dpc, seen, ch, chClosed, errch,
                 errClosed, wpc, witem, werr, errs, apc, ret, sentErrs,
                 admitted, applied, failed>>

\* -------------------------------------------------------------------- runs
\* processArgs(args, followSymlinks, apply) just after its goroutines started
InitArgs ==
  /\ AuxIdle
  /\ mode = "args"
  /\ args \in SeqUpTo(ArgNames, MaxArgs)
  \* followSymlinks is read for a symbolic-link argument only, so a list
  \* without one is run under one value of the flag
  /\ follow \in IF \E i \in DOMAIN args : args[i] \in DOMAIN LinkTarget
                THEN BOOLEAN ELSE {FALSE}
  /\ idx = 1
  /\ dpc = "loop"
  /\ seen = EmptyMap
  /\ ch = <<>> /\ chClosed = FALSE
  /\ errch = <<>> /\ errClosed = FALSE
  /\ wpc = [w \in Workers |->
              IF w <= NumWorkers(args) THEN "recv" ELSE "off"]
  /\ witem = [w \in Workers |-> NoItem]
  /\ werr = [w \in Workers |-> NoErr]
  /\ errs = <<>>
  /\ apc = "drain"
  /\ mpc = "wrkWait"
  /\ ret = <<>>
  /\ sentErrs = <<>>
  /\ admitted = <<>>
  /\ applied = [n \in ShortNames |-> 0]
  /\ failed = [n \in ShortNames |-> 0]
  /\ trace = <<>>
  /\ hdr = <<>>

\* doVerify(nm) once the manifest is open: nothing is read, no goroutine runs
InitVerify ==
  /\ AuxIdle
  /\ mode = "verify"
  /\ hdr \in HeaderCases
  /\ args \in IF hdr = <<>> THEN {<<>>} ELSE SeqUpTo(ManifestLines, MaxLines)
  /\ follow = FALSE
  /\ idx = 1
  /\ dpc = "off"
  /\ seen = EmptyMap
  /\ ch = <<>> /\ chClosed = FALSE
  /\ errch = <<>> /\ errClosed = FALSE
  /\ wpc = [w \in Workers |-> "off"]
  /\ witem = [w \in Workers |-> NoItem]
  /\ werr = [w \in Workers |-> NilErr("verify")]
  /\ errs = <<>>
  /\ apc = "off"
  /\ mpc = "header"
  /\ ret = 0
  /\ sentErrs = <<>>
  /\ admitted = <<>>
  /\ applied = [n \in 2 .. MaxLines + 1 |-> 0]
  /\ failed = [n \in 2 .. MaxLines + 1 |-> 0]
  /\ trace = <<>>

Init == InitArgs \/ InitVerify

\* main once the manifest's first line is written and the writer goroutine
\* and processArgs' goroutines are started (main has checked len(args) >= 1)
GenStart(list, fol) ==
  /\ CodecIdle /\ CallsIdle /\ RunsIdle /\ DupIdle /\ MoreIdle
  /\ mode = "gen"
  /\ args = list
  /\ follow = fol
  /\ idx = 1
  /\ dpc = "loop"
  /\ seen = EmptyMap
  /\ ch = <<>> /\ chClosed = FALSE
  /\ errch = <<>> /\ errClosed = FALSE
  /\ wpc = [w \in Workers |->
              IF w <= NumWorkers(args) THEN "recv" ELSE "off"]
  /\ witem = [w \in Workers |-> NoItem]
  /\ werr = [w \in Workers |-> NoErr]
  /\ errs = <<>>
  /\ apc = "drain"
  /\ mpc = "wrkWait"
  /\ ret = NilError
  /\ sentErrs = <<>>
  /\ admitted = <<>>
  /\ applied = [n \in ShortNames |-> 0]
  /\ failed = [n \in ShortNames |-> 0]
  /\ trace = <<>>
  /\ hdr = <<>>
  /\ rch = <<>> /\ rchClosed = FALSE
  /\ wres = [w \in Workers |-> NoTuple]
  /\ out = <<GenHeader(<<"s", "h", "a", "2", "5", "6">>, <<"v", "1">>)>>
  /\ opc = "write"
  /\ exit = NoExit

InitGen ==
  \E list \in SeqUpTo(GenNames, MaxArgs) \ {<<>>} :
    \E fol \in IF \E i \in DOMAIN list : list[i] \in DOMAIN LinkTarget
                THEN BOOLEAN ELSE {FALSE} :
      GenStart(list, fol)

\* a long name list: regular files, then a fifo, a file that cannot be
\* opened and a file named before, then three more regular files
NDone == NMany - 3
LongList ==
  SubSeq(ManyList, 1, NDone) \o <<"p", "k", "m01">>
    \o SubSeq(ManyList, NDone + 1, NMany)

\* the tracker once the producer is past the first n names of the long list
RECURSIVE SeenAfter(_)
SeenAfter(n) ==
  IF n = 0 THEN EmptyMap
  ELSE DispatchOne(SeenAfter(n - 1), LongList[n], FALSE).map

\* a generating run over the long list at the point where its first NDone
\* names have been admitted and hashed one after the other, their results
\* wait in the result channel in that order, and the writer goroutine has
\* not been scheduled since the run began
InitLong ==
  /\ CodecIdle /\ CallsIdle /\ RunsIdle /\ DupIdle /\ MoreIdle
  /\ mode = "gen"
  /\ args = LongList
  /\ follow = FALSE
  /\ idx = NDone + 1
  /\ dpc = "loop"
  /\ seen = SeenAfter(NDone)
  /\ ch = <<>> /\ chClosed = FALSE
  /\ errch = <<>> /\ errClosed = FALSE
  /\ wpc = [w \in Workers |-> "recv"]
  /\ witem = [w \in Workers |-> NoItem]
  /\ werr = [w \in Workers |-> NoErr]
  /\ errs = <<>>
  /\ apc = "drain"
  /\ mpc = "wrkWait"
  /\ ret = NilError
  /\ sentErrs = <<>>
  /\ admitted = [i \in 1 .. NDone |->
                  DispatchOne(SeenAfter(i - 1), LongList[i], FALSE).item]
  /\ applied = [n \in DOMAIN FS |->
                 IF \E i \in 1 .. NDone : LongList[i] = n THEN 1 ELSE 0]
  /\ failed = [n \in DOMAIN FS |-> 0]
  /\ trace = [i \in 1 .. NDone |-> Handled(LongList[i], "admit", NoErr.kind)]
  /\ hdr = <<>>
  /\ rch = [i \in 1 .. NDone |->
             [nm |-> LongList[i],
              sz |-> HashFile(GFiles, LongList[i]).sz,
              sum |-> HashFile(GFiles, LongList[i]).sum]]
  /\ rchClosed = FALSE
  /\ wres = [w \in Workers |-> NoTuple]
  /\ out = <<GenHeader(<<"s", "h", "a", "2", "5", "6">>, <<"v", "1">>)>>
  /\ opc = "write"
  /\ exit = NoExit

Next ==
  \/ HeaderDie
  \/ HeaderAccept
  \/ DispatchSkip
  \/ DispatchReject
  \/ DispatchAdmit
  \/ DispatchClose
  \/ FeedReject
  \/ FeedEnqueue
  \/ FeedPanic
  \/ FeedClose
  \/ \E w \in Workers : WorkerVerifyOk(w)
  \/ \E w \in Workers : WorkerVerifyFail(w)
  \/ \E w \in Workers : WorkerRecv(w)
  \/ \E w \in Workers : WorkerApplyOk(w)
  \/ \E w \in Workers : WorkerApplyFail(w)
  \/ \E w \in Workers : WorkerSendErr(w)
  \/ \E w \in Workers : WorkerExit(w)
  \/ AggRecv
  \/ AggExit
  \/ MainWait
  \/ MainCloseErr
  \/ MainReturn

Spec == Init /\ [][Next]_vars

\* doVerify alone: the steps a run over a manifest takes
NextVerify ==
  \/ HeaderDie
  \/ HeaderAccept
  \/ FeedReject
  \/ FeedEnqueue
  \/ FeedPanic
  \/ FeedClose
  \/ \E w \in Workers : WorkerRecv(w)
  \/ \E w \in Workers : WorkerVerifyOk(w)
  \/ \E w \in Workers : WorkerVerifyFail(w)
  \/ \E w \in Workers : WorkerSendErr(w)
  \/ \E w \in Workers : WorkerExit(w)
  \/ AggRecv
  \/ AggExit
  \/ MainWait
  \/ MainCloseErr
  \/ MainReturn

SpecVerify == InitVerify /\ [][NextVerify]_vars

\* the steps of each goroutine
ProducerStep ==
  \/ DispatchSkip \/ DispatchReject \/ DispatchAdmit \/ DispatchClose
  \/ FeedReject \/ FeedEnqueue \/ FeedPanic \/ FeedClose
WorkerStep(w) ==
  \/ WorkerRecv(w) \/ WorkerApplyOk(w) \/ WorkerApplyFail(w)
  \/ WorkerVerifyOk(w) \/ WorkerVerifyFail(w)
  \/ WorkerSendErr(w) \/ WorkerExit(w)
AggStep == AggRecv \/ AggExit
MainStep == HeaderDie \/ HeaderAccept \/ MainWait \/ MainCloseErr \/ MainReturn

\* the Go scheduler runs every goroutine that can take a step, and every
\* per-file action returns
Fairness ==
  /\ WF_vars(ProducerStep)
  /\ \A w \in Workers : WF_vars(WorkerStep(w))
  /\ WF_vars(AggStep)
  /\ WF_vars(MainStep)

SpecFair == Spec /\ Fairness

\* ------------------------------------------- processArgs, invoked again
\* the names of the input a caller passes to every invocation
RunNames == {"f", "h", "l", "d"}

\* var sr symlinkResolver: a tracker of the invocation, with an empty map
SharedResolver(old) == old
NewResolver(old) == EmptyMap

\* the call has returned and the caller invokes processArgs again on the same
\* input: new channels, a new errs list, new goroutines, and the producer
\* goroutine declares its resolver
Reinvoke ==
  /\ mode = "args" /\ mpc = "done"
  /\ run + 1 < MaxRuns
  /\ run' = run + 1
  /\ prev' = admitted
  /\ prevTrace' = trace
  /\ idx' = 1
  /\ dpc' = "loop"
  /\ seen' = NewResolver(seen)
  /\ ch' = <<>> /\ chClosed' = FALSE
  /\ errch' = <<>> /\ errClosed' = FALSE
  /\ wpc' = [w \in Workers |->
               IF w <= NumWorkers(args) THEN "recv" ELSE "off"]
  /\ witem' = [w \in Workers |-> NoItem]
  /\ werr' = [w \in Workers |-> NoErr]
  /\ errs' = <<>>
  /\ apc' = "drain"
  /\ mpc' = "wrkWait"
  /\ ret' = <<>>
  /\ sentErrs' = <<>>
  /\ admitted' = <<>>
  /\ applied' = [n \in ShortNames |-> 0]
  /\ failed' = [n \in ShortNames |-> 0]
  /\ trace' = <<>>
  /\ UNCHANGED <<mode, args, follow, hdr>>
  /\ UNCHANGED <<codecVars, callVars, genVars, dupVars, moreVars>>

InitRuns ==
  /\ InitArgs
  /\ \A i \in DOMAIN args : args[i] \in RunNames

NextRuns ==
  \/ DispatchSkip
  \/ DispatchReject
  \/ DispatchAdmit
  \/ DispatchClose
  \/ \E w \in Workers : WorkerRecv(w)
  \/ \E w \in Workers : WorkerApplyOk(w)
  \/ \E w \in Workers : WorkerApplyFail(w)
  \/ \E w \in Workers : WorkerSendErr(w)
  \/ \E w \in Workers : WorkerExit(w)
  \/ AggRecv
  \/ AggExit
  \/ MainWait
  \/ MainCloseErr
  \/ MainReturn
  \/ Reinvoke

SpecRuns == InitRuns /\ [][NextRuns]_vars

NextGen ==
  \/ DispatchSkip
  \/ DispatchReject
  \/ DispatchAdmit
  \/ DispatchClose
  \/ \E w \in Workers : WorkerRecv(w)
  \/ \E w \in Workers : WorkerHashOk(w)
  \/ \E w \in Workers : WorkerHashFail(w)
  \/ \E w \in Workers : WorkerSendRes(w)
  \/ \E w \in Workers : WorkerSendErr(w)
  \/ \E w \in Workers : WorkerExit(w)
  \/ AggRecv
  \/ AggExit
  \/ MainWait
  \/ MainCloseErr
  \/ MainReturn
  \/ WriterWrite
  \/ WriterFail
  \/ WriterExit
  \/ GenCloseRes
  \/ GenExit

SpecGen == InitGen /\ [][NextGen]_vars

SpecLong == InitLong /\ [][NextGen]_vars

\* a name list with more regular files than the result channel and one
\* failed write can take: as many regular files as the channel holds, then a
\* fifo, a file that cannot be opened and a file named before, then the
\* other regular files
StallList ==
  SubSeq(ManyList, 1, ResChanCap) \o <<"p", "k", "m01">>
    \o SubSeq(ManyList, ResChanCap + 1, NMany) \o <<"f", "g">>

\* the tracker once the producer is past the first n names of a list
RECURSIVE SeenUpTo(_, _)
SeenUpTo(list, n) ==
  IF n = 0 THEN EmptyMap
  ELSE DispatchOne(SeenUpTo(list, n - 1), list[n], FALSE).map

\* a generating run over the list above at the point where the result
\* channel is full: the first names have been admitted and hashed one after
\* the other, their results wait in the channel in that order, and the writer
\* goroutine has not been scheduled since the run began
InitStall ==
  /\ CodecIdle /\ CallsIdle /\ RunsIdle /\ DupIdle /\ MoreIdle
  /\ mode = "gen"
  /\ args = StallList
  /\ follow = FALSE
  /\ idx = ResChanCap + 1
  /\ dpc = "loop"
  /\ seen = SeenUpTo(StallList, ResChanCap)
  /\ ch = <<>> /\ chClosed = FALSE
  /\ errch = <<>> /\ errClosed = FALSE
  /\ wpc = [w \in Workers |-> "recv"]
  /\ witem = [w \in Workers |-> NoItem]
  /\ werr = [w \in Workers |-> NoErr]
  /\ errs = <<>>
  /\ apc = "drain"
  /\ mpc = "wrkWait"
  /\ ret = NilError
  /\ sentErrs = <<>>
  /\ admitted = [i \in 1 .. ResChanCap |->
                  DispatchOne(SeenUpTo(StallList, i - 1), StallList[i],
                              FALSE).item]
  /\ applied = [n \in DOMAIN FS |->
                 IF \E i \in 1 .. ResChanCap : StallList[i] = n
                 THEN 1 ELSE 0]
  /\ failed = [n \in DOMAIN FS |-> 0]
  /\ trace = [i \in 1 .. ResChanCap |->
               Handled(StallList[i], "admit", NoErr.kind)]
  /\ hdr = <<>>
  /\ rch = [i \in 1 .. ResChanCap |->
             [nm |-> StallList[i],
              sz |-> HashFile(GFiles, StallList[i]).sz,
              sum |-> HashFile(GFiles, StallList[i]).sum]]
  /\ rchClosed = FALSE
  /\ wres = [w \in Workers |-> NoTuple]
  /\ out = <<GenHeader(<<"s", "h", "a", "2", "5", "6">>, <<"v", "1">>)>>
  /\ opc = "write"
  /\ exit = NoExit

\* the steps of the goroutines of a generating run
GenWorkerStep(w) ==
  \/ WorkerRecv(w) \/ WorkerHashOk(w) \/ WorkerHashFail(w)
  \/ WorkerSendRes(w) \/ WorkerSendErr(w) \/ WorkerExit(w)
GenWriterStep == WriterWrite \/ WriterFail \/ WriterExit
GenMainStep ==
  MainWait \/ MainCloseErr \/ MainReturn \/ GenCloseRes \/ GenExit

\* the Go scheduler runs every goroutine that can take a step
GenFairness ==
  /\ WF_vars(DispatchSkip \/ DispatchReject \/ DispatchAdmit \/ DispatchClose)
  /\ \A w \in Workers : WF_vars(GenWorkerStep(w))
  /\ WF_vars(AggStep)
  /\ WF_vars(GenMainStep)
  /\ WF_vars(GenWriterStep)

SpecStall == InitStall /\ [][NextGen]_vars /\ GenFairness

\* ------------------------------------------- concurrent isEntrySeen calls
\* the names the calls of a tracker run are made with
TrackNames == {"f", "h", "g", "d"}

\* isEntrySeen up to and including x, ok := s.seen.LoadOrStore(key, fi), which
\* sync.Map runs atomically
SeenStore(c) ==
  /\ spc[c] = "idle"
  /\ \E nm \in TrackNames :
       LET fi == FS[nm]
           key == InodeKey(fi)
           val == [nm |-> nm, fi |-> fi]
       IN /\ sarg' = [sarg EXCEPT ![c] = nm]
          /\ sld' = [sld EXCEPT ![c] =
                       [loaded |-> LoadOrStoreLoaded(seen, key),
                        x |-> LoadOrStoreActual(seen, key, val)]]
          /\ seen' = LoadOrStoreMap(seen, key, val)
          /\ firstStore' = IF key \in DOMAIN firstStore THEN firstStore
                           ELSE firstStore @@ (key :> val)
  /\ spc' = [spc EXCEPT ![c] = "stored"]
  /\ UNCHANGED <<sres>>
  /\ UNCHANGED codecVars
  /\ UNCHANGED pipeVars

\* the rest of isEntrySeen: the comparison of the loaded record and the return
SeenReturn(c) ==
  /\ spc[c] = "stored"
  /\ sres' = [sres EXCEPT ![c] =
                SeenResult(sld[c].loaded, sld[c].x.fi, FS[sarg[c]])]
  /\ spc' = [spc EXCEPT ![c] = "ret"]
  /\ UNCHANGED <<seen, sarg, sld, firstStore>>
  /\ UNCHANGED codecVars
  /\ UNCHANGED pipeVars

InitSeen ==
  /\ PipeIdle /\ CodecIdle
  /\ seen = EmptyMap
  /\ spc = [c \in Callers |-> "idle"]
  /\ sarg = [c \in Callers |-> ""]
  /\ sld = [c \in Callers |-> NoLoad]
  /\ sres = [c \in Callers |-> FALSE]
  /\ firstStore = EmptyMap

NextSeen ==
  \/ \E c \in Callers : SeenStore(c)
  \/ \E c \in Callers : SeenReturn(c)

SpecSeen == InitSeen /\ [][NextSeen]_vars

\* ------------------------------------------------ write and read one entry
\* the characters a path of a codec run is made of
PathChars == {"f", "\"", "|", " ", "\n", "\\"}
\* the digests and sizes of a codec run
CodecSums == {<<171>>, <<10>>}
CodecSizes == {0, 7, 12}

\* the filesystem of a codec run: the file just hashed, and nothing else
CodecFS(t) ==
  [p \in {t.nm} |-> [mode |-> "reg", size |-> t.sz, sum |-> t.sum,
                      read |-> t.sz, open |-> TRUE]]

\* the writer goroutine of main: fmt.Fprintf(fd, "%x|%d|%s\n", o.sum, o.sz, o.nm)
WriteEntry ==
  /\ cpc = "new"
  /\ ctext' = EntryLine(cin.sum, cin.sz, cin.nm)
  /\ cpc' = "written"
  /\ UNCHANGED <<cin, cout, seen>>
  /\ UNCHANGED callVars
  /\ UNCHANGED pipeVars

\* doVerify's feeder on the text: rd.Scan() and parseLine for every line
ReadBack ==
  /\ cpc = "written"
  /\ LET lines == ScanLines(ctext)
     IN cout' = [i \in 1 .. Len(lines) |->
                   ParseLine(lines[i], ErrPref(i), CodecFS(cin))]
  /\ cpc' = "read"
  /\ UNCHANGED <<cin, ctext, seen>>
  /\ UNCHANGED callVars
  /\ UNCHANGED pipeVars

InitCodec ==
  /\ PipeIdle /\ CallsIdle
  /\ seen = EmptyMap
  /\ cin \in [sum : CodecSums, sz : CodecSizes,
              nm : SeqUpTo(PathChars, MaxPathLen) \ {<<>>}]
  /\ ctext = <<>>
  /\ cout = <<>>
  /\ cpc = "new"

NextCodec == WriteEntry \/ ReadBack

SpecCodec == InitCodec /\ [][NextCodec]_vars

\* ------------------------------------------------------------------ finddup
\* the files of the walked directories: their checksum, their modification
\* time and whether they can be opened; a, b and c hold the same bytes
DupFiles ==
  [ a |-> [sum |-> "s1", mtime |-> 3, open |-> TRUE],
    b |-> [sum |-> "s1", mtime |-> 1, open |-> TRUE],
    c |-> [sum |-> "s1", mtime |-> 2, open |-> TRUE],
    e |-> [sum |-> "s2", mtime |-> 2, open |-> TRUE],
    u |-> [sum |-> "", mtime |-> 4, open |-> FALSE] ]

DupNames == DOMAIN DupFiles

\* the walk.Result of a file: its path and its Stat (the modification time)
Result(n) == [path |-> n, mtime |-> DupFiles[n].mtime]
\* the zero walk.Result, which fills the unused slots of a new backing array
ZeroResult == [path |-> "", mtime |-> 0]
\* what a slot index past the end of its backing array stands for
OutOfArray == [path |-> "?", mtime |-> 0]

\* empty := []walk.Result{}: no backing array, length and capacity 0
EmptyHdr == [ptr |-> 0, len |-> 0, cap |-> 0]

\* the element a slice header reaches at index i (1-based) in heap hp
At(hp, p, i) == IF p = 0 \/ i > Len(hp[p]) THEN OutOfArray ELSE hp[p][i]

\* append's new capacity when the slice is full: doubled, or what is needed
Grow(c, n) == IF n > 2 * c THEN n ELSE 2 * c

\* a slice header is more than one machine word: a load or a store of it is
\* made of the pointer and of the length and capacity
HdrParts == {"ptr", "lencap"}
Part(part, from, into) ==
  IF part = "ptr" THEN [into EXCEPT !.ptr = from.ptr]
  ELSE [into EXCEPT !.len = from.len, !.cap = from.cap]

\* sum := fmt.Sprintf("%x", cs)
KeyOf(n) == DupFiles[n].sum

\* everything a finddup step leaves alone but mpc and its own variables
dupFrame == <<mode, args, follow, idx, dpc, seen, ch, chClosed, errch,
              errClosed, wpc, witem, werr, errs, apc, ret, sentErrs, admitted,
              applied, failed, trace, hdr, codecVars, callVars, genVars,
              runVars, moreVars>>

\* the callback up to x, _ := dups.LoadOrStore(sum, &empty), which the map
\* runs atomically
CbChecksum(n) ==
  /\ mode = "dup" /\ fpc[n] = "new"
  /\ DupFiles[n].open
  /\ dups' = LoadOrStoreMap(dups, KeyOf(n), EmptyHdr)
  /\ fpc' = [fpc EXCEPT ![n] = "load"]
  /\ UNCHANGED <<dfiles, fparts, fhdr, heap, visited, rpt, mpc>>
  /\ UNCHANGED dupFrame

\* the callback when checksum fails: return err
CbFail(n) ==
  /\ mode = "dup" /\ fpc[n] = "new"
  /\ ~DupFiles[n].open
  /\ fpc' = [fpc EXCEPT ![n] = "err"]
  /\ UNCHANGED <<dfiles, fparts, fhdr, dups, heap, visited, rpt, mpc>>
  /\ UNCHANGED dupFrame

\* *x = append(*x, res): the load of one part of *x, with no lock held
CbLoadPart(n, part) ==
  /\ mode = "dup" /\ fpc[n] = "load"
  /\ part \notin fparts[n]
  /\ fhdr' = [fhdr EXCEPT ![n] = Part(part, dups[KeyOf(n)], @)]
  /\ IF fparts[n] \cup {part} = HdrParts
     THEN fpc' = [fpc EXCEPT ![n] = "append"] /\ fparts' = [fparts EXCEPT ![n] = {}]
     ELSE fpc' = fpc /\ fparts' = [fparts EXCEPT ![n] = @ \cup {part}]
  /\ UNCHANGED <<dfiles, dups, heap, visited, rpt, mpc>>
  /\ UNCHANGED dupFrame

\* what a write of new to a slot that holds old leaves there: new, or, when
\* another callback's write of old to the same slot runs at the same time, a
\* mix of the two multiword values
SlotAfter(old, new) ==
  IF old = ZeroResult THEN {new}
  ELSE {new, [path |-> new.path, mtime |-> old.mtime],
             [path |-> old.path, mtime |-> new.mtime]}

\* *x = append(*x, res): append on the header loaded. With room left the
\* element is written in place (a slot past the end of the array is not one
\* of the array's); else a new array is allocated and the elements copied
CbAppend(n) ==
  /\ mode = "dup" /\ fpc[n] = "append"
  /\ LET h == fhdr[n]
     IN IF h.len < h.cap
        THEN /\ fhdr' = [fhdr EXCEPT ![n] = [h EXCEPT !.len = h.len + 1]]
             /\ IF h.ptr # 0 /\ h.len + 1 <= Len(heap[h.ptr])
                THEN \E v \in SlotAfter(heap[h.ptr][h.len + 1], Result(n)) :
                       heap' = [heap EXCEPT ![h.ptr][h.len + 1] = v]
                ELSE heap' = heap
        ELSE LET newcap == Grow(h.cap, h.len + 1)
                 arr == [i \in 1 .. newcap |->
                           IF i <= h.len THEN At(heap, h.ptr, i)
                           ELSE IF i = h.len + 1 THEN Result(n)
                           ELSE ZeroResult]
             IN /\ heap' = Append(heap, arr)
                /\ fhdr' = [fhdr EXCEPT ![n] =
                              [ptr |-> Len(heap) + 1, len |-> h.len + 1,
                               cap |-> newcap]]
  /\ fpc' = [fpc EXCEPT ![n] = "store"]
  /\ UNCHANGED <<dfiles, fparts, dups, visited, rpt, mpc>>
  /\ UNCHANGED dupFrame

\* *x = append(*x, res): the store of one part of the new header into *x,
\* with no lock held; after the last part the callback returns nil
CbStorePart(n, part) ==
  /\ mode = "dup" /\ fpc[n] = "store"
  /\ part \notin fparts[n]
  /\ dups' = [dups EXCEPT ![KeyOf(n)] = Part(part, fhdr[n], @)]
  /\ IF fparts[n] \cup {part} = HdrParts
     THEN fpc' = [fpc EXCEPT ![n] = "done"] /\ fparts' = [fparts EXCEPT ![n] = {}]
     ELSE fpc' = fpc /\ fparts' = [fparts EXCEPT ![n] = @ \cup {part}]
  /\ UNCHANGED <<dfiles, fhdr, heap, visited, rpt, mpc>>
  /\ UNCHANGED dupFrame

\* every callback has returned
WalkOver == \A n \in dfiles : fpc[n] \in {"done", "err"}

\* walk.WalkFunc returns an error: Die("%s", err)
WalkDie ==
  /\ mode = "dup" /\ mpc = "walk"
  /\ WalkOver
  /\ \E n \in dfiles : fpc[n] = "err"
  /\ mpc' = Die
  /\ UNCHANGED dupVars
  /\ UNCHANGED dupFrame

\* walk.WalkFunc returns nil: main goes on to dups.Range
WalkDone ==
  /\ mode = "dup" /\ mpc = "walk"
  /\ WalkOver
  /\ \A n \in dfiles : fpc[n] # "err"
  /\ mpc' = "range"
  /\ UNCHANGED dupVars
  /\ UNCHANGED dupFrame

\* v := *pv: the elements the header of a key reaches
GroupOf(k) == [i \in 1 .. dups[k].len |-> At(heap, dups[k].ptr, i)]

\* byMtime.Less on two elements: the first is more recent
Less(a, b) == a.mtime > b.mtime

\* sort.Sort(byMtime(v)) on a short slice: an insertion sort, every element
\* moved left while it is Less than its left neighbour
RECURSIVE InsertLeft(_, _)
InsertLeft(s, x) ==
  IF s = <<>> THEN <<x>>
  ELSE IF Less(x, s[Len(s)])
       THEN InsertLeft(SubSeq(s, 1, Len(s) - 1), x) \o <<s[Len(s)]>>
       ELSE Append(s, x)

RECURSIVE SortByMtime(_)
SortByMtime(v) ==
  IF Len(v) <= 1 THEN v
  ELSE InsertLeft(SortByMtime(SubSeq(v, 1, Len(v) - 1)), v[Len(v)])

\* the indices of a group that are past the end of its backing array
Holes(v) == {i \in DOMAIN v : v[i] = OutOfArray}

\* dups.Range's function on a key not yet visited: a group of fewer than two
\* is passed over, any other is sorted and printed. An element read past the
\* end of the array is whatever the memory there holds: here a walk.Result
RangeVisit(k) ==
  /\ mode = "dup" /\ mpc = "range"
  /\ k \in DOMAIN dups \ visited
  /\ LET v == GroupOf(k)
     IN IF Len(v) < 2 THEN rpt' = rpt
        ELSE /\ \A i \in DOMAIN v : v[i] # ZeroResult
             /\ \E fill \in [Holes(v) -> {Result(n) : n \in dfiles}] :
                  LET w == [i \in DOMAIN v |->
                              IF i \in Holes(v) THEN fill[i] ELSE v[i]]
                  IN rpt' = Append(rpt, [sum |-> k, files |-> SortByMtime(w)])
  /\ visited' = visited \cup {k}
  /\ UNCHANGED <<dfiles, fpc, fparts, fhdr, dups, heap, mpc>>
  /\ UNCHANGED dupFrame

\* dups.Range's function on a group with an element that is no walk.Result
\* (a zero slot, or memory past the end of the array): ModTime() on its Stat
\* faults and the process ends
RangeFault(k) ==
  /\ mode = "dup" /\ mpc = "range"
  /\ k \in DOMAIN dups \ visited
  /\ LET v == GroupOf(k)
     IN /\ Len(v) >= 2
        /\ \E i \in DOMAIN v : v[i] \in {ZeroResult, OutOfArray}
  /\ mpc' = "dead"
  /\ UNCHANGED dupVars
  /\ UNCHANGED dupFrame

\* dups.Range has visited every key: main returns
RangeEnd ==
  /\ mode = "dup" /\ mpc = "range"
  /\ visited = DOMAIN dups
  /\ mpc' = "done"
  /\ UNCHANGED dupVars
  /\ UNCHANGED dupFrame

\* what shell mode prints for a sorted group: fmt.Printf("# rm -f '%s'\n",
\* v[0].Path), then fmt.Printf("rm -f '%s'\n", r.Path) for every r of v[1:]
ShellLines(v) ==
  [i \in DOMAIN v |-> [active |-> i > 1, path |-> v[i].path]]

\* finddup once the walk has found its files and no callback has run yet
InitDup ==
  /\ CodecIdle /\ CallsIdle /\ GenIdle /\ RunsIdle /\ MoreIdle
  /\ PipeUnused
  /\ seen = EmptyMap
  /\ mode = "dup"
  /\ mpc = "walk"
  /\ dfiles \in {S \in SUBSET DupNames : Cardinality(S) <= MaxFiles}
  /\ fpc = [n \in DupNames |-> IF n \in dfiles THEN "new" ELSE "off"]
  /\ fparts = [n \in DupNames |-> {}]
  /\ fhdr = [n \in DupNames |-> EmptyHdr]
  /\ dups = EmptyMap
  /\ heap = <<>>
  /\ visited = {}
  /\ rpt = <<>>

NextDup ==
  \/ \E n \in DupNames : CbChecksum(n)
  \/ \E n \in DupNames : CbFail(n)
  \/ \E n \in DupNames, part \in HdrParts : CbLoadPart(n, part)
  \/ \E n \in DupNames : CbAppend(n)
  \/ \E n \in DupNames, part \in HdrParts : CbStorePart(n, part)
  \/ WalkDie
  \/ WalkDone
  \/ \E k \in DOMAIN dups : RangeVisit(k)
  \/ \E k \in DOMAIN dups : RangeFault(k)
  \/ RangeEnd

SpecDup == InitDup /\ [][NextDup]_vars

\* --------------------------------------- verifyFile: the digest comparison
\* the characters of the digests of a comparison run
CmpChars == {"0", "f"}

\* the byte of a hex digit ('0' is 48, 'a' is 97)
ByteOf(c) ==
  LET d == (CHOOSE i \in 1 .. 16 : HexDigits[i] = c) - 1
  IN IF d < 10 THEN 48 + d ELSE 87 + d

\* x ^ y and x | y on bytes
RECURSIVE Xor(_, _)
Xor(a, b) ==
  IF a = 0 /\ b = 0 THEN 0
  ELSE ((a + b) % 2) + 2 * Xor(a \div 2, b \div 2)

RECURSIVE Or(_, _)
Or(a, b) ==
  IF a = 0 /\ b = 0 THEN 0
  ELSE (IF a % 2 = 1 \/ b % 2 = 1 THEN 1 ELSE 0) + 2 * Or(a \div 2, b \div 2)

\* subtle.ConstantTimeByteEq(x, y)
ConstantTimeByteEq(a, b) == IF a = b THEN 1 ELSE 0

\* everything but the variables of the digest comparison, godu and hexlify
coreFrame == <<mode, args, follow, idx, dpc, seen, ch, chClosed, errch,
               errClosed, wpc, witem, werr, errs, apc, mpc, ret, sentErrs,
               admitted, applied, failed, trace, hdr, codecVars, callVars,
               genVars, runVars, dupVars>>

\* nothing else is running
CoreIdle ==
  /\ mode = "none" /\ mpc = "done" /\ PipeUnused /\ seen = EmptyMap
  /\ CodecIdle /\ CallsIdle /\ GenIdle /\ RunsIdle /\ DupIdle

\* subtle.ConstantTimeCompare(x, y) goes on with byte i: x and y have the same
\* length and the loop `for i := 0; i < len(x); i++` is not over, whatever v is
CmpStopsAtDifference(x, y, i, v) == Len(x) = Len(y) /\ i <= Len(x) /\ v = 0
CmpGoesOn(x, y, i, v) == Len(x) = Len(y) /\ i <= Len(x)

\* where verifyFile goes once hashFile has returned without an error: to the
\* check of the hashed byte count
DigestFirst == "loop"
AfterHash == "size"

\* if d.size != sz { return fmt.Errorf("... hash size mismatch ...") }
VfSize(r) ==
  /\ cmp # <<>> /\ cmp.pc[r] = "size"
  /\ cmp' = IF cmp.size # cmp.sz
            THEN [cmp EXCEPT !.err[r] = "hash size mismatch", !.pc[r] = "ret"]
            ELSE [cmp EXCEPT !.pc[r] = "loop"]
  /\ UNCHANGED <<du, hx>>
  /\ UNCHANGED coreFrame

\* one iteration: v |= x[i] ^ y[i]
CmpStep(r) ==
  /\ cmp # <<>> /\ cmp.pc[r] = "loop"
  /\ CmpGoesOn(cmp.x, cmp.e[r], cmp.i[r], cmp.v[r])
  /\ cmp' = [cmp EXCEPT !.v[r] = Or(@, Xor(ByteOf(cmp.x[cmp.i[r]]),
                                             ByteOf(cmp.e[r][cmp.i[r]]))),
                        !.i[r] = @ + 1,
                        !.work[r] = @ + 1]
  /\ UNCHANGED <<du, hx>>
  /\ UNCHANGED coreFrame

\* return 0 on unequal lengths, else ConstantTimeByteEq(v, 0) after the loop;
\* verifyFile returns "file modified" unless the result is 1
CmpReturn(r) ==
  /\ cmp # <<>> /\ cmp.pc[r] = "loop"
  /\ ~CmpGoesOn(cmp.x, cmp.e[r], cmp.i[r], cmp.v[r])
  /\ LET res == IF Len(cmp.x) # Len(cmp.e[r]) THEN 0
                ELSE ConstantTimeByteEq(cmp.v[r], 0)
     IN cmp' = [cmp EXCEPT !.res[r] = res,
                           !.err[r] = IF res # 1 THEN "file modified" ELSE "",
                           !.pc[r] = "ret"]
  /\ UNCHANGED <<du, hx>>
  /\ UNCHANGED coreFrame

\* the sizes an entry expects and hashFile reports
CmpSizes == 1 .. 2

\* verifyFile, once hashFile has returned the digest x and the byte count sz of
\* a file: two such calls on two entries with expected digests of one length
\* and the same expected size
InitCmp ==
  /\ CoreIdle
  /\ du = <<>> /\ hx = <<>>
  /\ \E x \in SeqUpTo(CmpChars, MaxHex), n \in 0 .. MaxHex :
       \E e1, e2 \in [1 .. n -> CmpChars], size, sz \in CmpSizes :
         cmp = [x |-> x, sz |-> sz, size |-> size, e |-> <<e1, e2>>,
                i |-> <<1, 1>>, v |-> <<0, 0>>, work |-> <<0, 0>>,
                res |-> <<0, 0>>, err |-> <<"", "">>,
                pc |-> <<AfterHash, AfterHash>>]

NextCmp ==
  \/ \E r \in 1 .. 2 : VfSize(r)
  \/ \E r \in 1 .. 2 : CmpStep(r)
  \/ \E r \in 1 .. 2 : CmpReturn(r)

SpecCmp == InitCmp /\ [][NextCmp]_vars

\* ----------------------------------------------------------------- hexlify
\* the alphabet of base64.StdEncoding
B64Alphabet ==
  << "A", "B", "C", "D", "E", "F", "G", "H", "I", "J", "K", "L", "M", "N", "O", "P",
     "Q", "R", "S", "T", "U", "V", "W", "X", "Y", "Z", "a", "b", "c", "d", "e", "f",
     "g", "h", "i", "j", "k", "l", "m", "n", "o", "p", "q", "r", "s", "t", "u", "v",
     "w", "x", "y", "z", "0", "1", "2", "3", "4", "5", "6", "7", "8", "9", "+", "/" >>

\* base64.StdEncoding.Encode(dst, src): every three bytes give four
\* characters; a last group of one or two bytes is padded with '='
RECURSIVE StdEncode(_)
StdEncode(b) ==
  IF Len(b) = 0 THEN <<>>
  ELSE IF Len(b) = 1
  THEN << B64Alphabet[(b[1] \div 4) + 1], B64Alphabet[(b[1] % 4) * 16 + 1],
          "=", "=" >>
  ELSE IF Len(b) = 2
  THEN LET n == (b[1] * 256 + b[2]) * 4
       IN << B64Alphabet[(n \div 4096) + 1], B64Alphabet[((n \div 64) % 64) + 1],
             B64Alphabet[(n % 64) + 1], "=" >>
  ELSE LET n == b[1] * 65536 + b[2] * 256 + b[3]
       IN << B64Alphabet[(n \div 262144) + 1],
             B64Alphabet[((n \div 4096) % 64) + 1],
             B64Alphabet[((n \div 64) % 64) + 1],
             B64Alphabet[(n % 64) + 1] >> \o StdEncode(SubSeq(b, 4, Len(b)))

\* flexdump.Write(b): what its loop writes, chunk after chunk of at most
\* _BUFSZ bytes, each one encoded by d.enc on its own
RECURSIVE FlexWrite(_)
FlexWrite(b) ==
  IF Len(b) = 0 THEN <<>>
  ELSE LET m == Min(Len(b), BUFSZ)
       IN StdEncode(SubSeq(b, 1, m)) \o FlexWrite(SubSeq(b, m + 1, Len(b)))

\* the values of the bytes of an input
HxBytes == {0, 255}

\* hexlate: src.Read(buf) returns n bytes (at most _BUFSZ) and dd.Write(buf[:n])
\* writes them
HxRead(n) ==
  /\ hx # <<>> /\ hx.pc = "read" /\ ~hx.mmap
  /\ n >= 1 /\ n <= Min(Len(hx.rest), BUFSZ)
  /\ hx' = [hx EXCEPT !.out = @ \o FlexWrite(SubSeq(hx.rest, 1, n)),
                      !.rest = SubSeq(@, n + 1, Len(@)),
                      !.calls = Append(@, n)]
  /\ UNCHANGED <<cmp, du>>
  /\ UNCHANGED coreFrame

\* hexlate on a file that can be mapped: mmap.Reader hands the next n bytes of
\* the file to dd.Write
HxMapped(n) ==
  /\ hx # <<>> /\ hx.pc = "read" /\ hx.mmap
  /\ n >= 1 /\ n <= Len(hx.rest)
  /\ hx' = [hx EXCEPT !.out = @ \o FlexWrite(SubSeq(hx.rest, 1, n)),
                      !.rest = SubSeq(@, n + 1, Len(@)),
                      !.calls = Append(@, n)]
  /\ UNCHANGED <<cmp, du>>
  /\ UNCHANGED coreFrame

\* the input is at its end: hexlate returns and the deferred d.Close() writes
\* the newline
HxClose ==
  /\ hx # <<>> /\ hx.pc = "read" /\ hx.rest = <<>>
  /\ hx' = [hx EXCEPT !.out = Append(@, "\n"), !.pc = "closed"]
  /\ UNCHANGED <<cmp, du>>
  /\ UNCHANGED coreFrame

\* hexlify b64 on one input, read through a buffer or mapped, before the
\* first read
InitHx ==
  /\ CoreIdle
  /\ cmp = <<>> /\ du = <<>>
  /\ \E in \in SeqUpTo(HxBytes, MaxIn), mm \in BOOLEAN :
       hx = [input |-> in, rest |-> in, mmap |-> mm, out |-> <<>>,
             calls |-> <<>>, pc |-> "read"]

NextHx ==
  \/ \E n \in 1 .. MaxIn : HxRead(n)
  \/ \E n \in 1 .. MaxIn : HxMapped(n)
  \/ HxClose

SpecHx == InitHx /\ [][NextHx]_vars

\* -------------------------------------------------------------------- godu
\* the command-line arguments of a run are drawn from a, a/b and ab
DuArgs == {<<"a">>, <<"a", "/", "b">>, <<"a", "b">>}

\* the records walk.Walk can yield (path and what lstat reported): a/x; a/b/x
\* and a/b/y, two names of one file; ab/x, a file with more than one link
\* whose inode number is that of a/b/x on another device
DuRecords ==
  { [path |-> <<"a", "/", "x">>, size |-> 1,
     dev |-> 1, rdev |-> 0, ino |-> 1, nlink |-> 1],
    [path |-> <<"a", "/", "b", "/", "x">>, size |-> 2,
     dev |-> 1, rdev |-> 0, ino |-> 2, nlink |-> 2],
    [path |-> <<"a", "/", "b", "/", "y">>, size |-> 2,
     dev |-> 1, rdev |-> 0, ino |-> 2, nlink |-> 2],
    [path |-> <<"a", "b", "/", "x">>, size |-> 4,
     dev |-> 2, rdev |-> 0, ino |-> 2, nlink |-> 2] }

\* strings.HasPrefix(s, prefix)
HasPrefix(s, prefix) ==
  Len(s) >= Len(prefix) /\ SubSeq(s, 1, Len(prefix)) = prefix

\* byLen.Less: decreasing order of length
ByLenLess(x, y) == Len(x) > Len(y)

\* sort.Sort(byLen(args)) on a short slice: an insertion sort, every element
\* moved left while it is Less than its left neighbour
RECURSIVE ByLenInsert(_, _)
ByLenInsert(s, x) ==
  IF s = <<>> THEN <<x>>
  ELSE IF ByLenLess(x, s[Len(s)])
       THEN ByLenInsert(SubSeq(s, 1, Len(s) - 1), x) \o <<s[Len(s)]>>
       ELSE Append(s, x)

RECURSIVE SortByLen(_)
NoSort(a) == a
SortByLen(a) ==
  IF Len(a) <= 1 THEN a
  ELSE ByLenInsert(SortByLen(SubSeq(a, 1, Len(a) - 1)), a[Len(a)])

\* key := fmt.Sprintf("%d:%d:%d", st.Dev, st.Rdev, st.Ino)
LinkKeyNoDev(st) == <<0, st.rdev, st.ino>>
LinkKey(st) == <<st.dev, st.rdev, st.ino>>

\* hardlinked(fi, nm) on the link map lm: [linked: the result, map: lm after]
hardlinked(lm, st, nm) ==
  IF st.nlink = 1 THEN [linked |-> FALSE, map |-> lm]
  ELSE IF LinkKey(st) \in DOMAIN lm THEN [linked |-> TRUE, map |-> lm]
  ELSE [linked |-> FALSE,
        map |-> [k \in DOMAIN lm \cup {LinkKey(st)} |->
                   IF k = LinkKey(st) THEN nm ELSE lm[k]]]

\* for i := range args { if strings.HasPrefix(r.Path, args[i]) { ...; break } }:
\* the index the loop stops at, 0 when it runs through
FirstPrefix(as, p) ==
  IF \E i \in DOMAIN as : HasPrefix(p, as[i])
  THEN CHOOSE i \in DOMAIN as :
         /\ HasPrefix(p, as[i])
         /\ \A j \in 1 .. i - 1 : ~HasPrefix(p, as[j])
  ELSE 0

\* sizes[nm] += sz on a map (a missing key reads as 0)
AddSize(m, nm, sz) ==
  [k \in DOMAIN m \cup {nm} |->
     IF k = nm THEN (IF nm \in DOMAIN m THEN m[nm] ELSE 0) + sz ELSE m[k]]

\* the sum of the sizes of a list of results, and of the values of a map
RECURSIVE SumSizes(_)
SumSizes(rs) == IF rs = <<>> THEN 0 ELSE rs[1].size + SumSizes(Tail(rs))

RECURSIVE SumValues(_)
SumValues(m) ==
  IF DOMAIN m = {} THEN 0
  ELSE LET k == CHOOSE x \in DOMAIN m : TRUE
       IN m[k] + SumValues([x \in DOMAIN m \ {k} |-> m[x]])

\* sort.Sort(byLen(args))
DuSort ==
  /\ du # <<>> /\ du.pc = "sort"
  /\ du' = [du EXCEPT !.args = SortByLen(du.args), !.pc = "loop"]
  /\ UNCHANGED <<cmp, hx>>
  /\ UNCHANGED coreFrame

\* for r := range ch: the record is a further name of a file counted before;
\* continue
DuSkipLink ==
  /\ du # <<>> /\ du.pc = "loop" /\ du.idx <= Len(du.recs)
  /\ LET r == du.recs[du.idx]
         h == hardlinked(du.linkmap, r, r.path)
     IN /\ h.linked
        /\ du' = [du EXCEPT !.linkmap = h.map, !.idx = @ + 1]
  /\ UNCHANGED <<cmp, hx>>
  /\ UNCHANGED coreFrame

\* for r := range ch: the record is counted: its size is added to the total of
\* the first argument that is a prefix of its path, and with --all the record
\* is a result of its own
DuCount ==
  /\ du # <<>> /\ du.pc = "loop" /\ du.idx <= Len(du.recs)
  /\ LET r == du.recs[du.idx]
         h == hardlinked(du.linkmap, r, r.path)
         i == FirstPrefix(du.args, r.path)
     IN /\ ~h.linked
        /\ du' = [du EXCEPT
                    !.linkmap = h.map,
                    !.sizes = IF i = 0 THEN @ ELSE AddSize(@, du.args[i], r.size),
                    !.res = IF du.all
                            THEN Append(@, [name |-> r.path, size |-> r.size])
                            ELSE @,
                    !.cnt = @ \cup {du.idx},
                    !.idx = @ + 1]
  /\ UNCHANGED <<cmp, hx>>
  /\ UNCHANGED coreFrame

\* the walker has closed its channels and reported errors: wg.Wait(); die(...)
DuDie ==
  /\ du # <<>> /\ du.pc = "loop" /\ du.idx > Len(du.recs)
  /\ du.nerr > 0
  /\ du' = [du EXCEPT !.pc = "died"]
  /\ UNCHANGED <<cmp, hx>>
  /\ UNCHANGED coreFrame

\* the walker has closed its channels without an error: the results are the
\* per-argument totals unless --all is given, and tot is the sum of their sizes
DuPrint ==
  /\ du # <<>> /\ du.pc = "loop" /\ du.idx > Len(du.recs)
  /\ du.nerr = 0
  /\ du' = [du EXCEPT !.tot = IF du.all THEN SumSizes(du.res)
                                         ELSE SumValues(du.sizes),
                      !.pc = "done"]
  /\ UNCHANGED <<cmp, hx>>
  /\ UNCHANGED coreFrame

\* godu once its flags are parsed (there is at least one argument), on the
\* records and the number of errors the walker will deliver; the walker yields
\* paths below the arguments it was given
InitDu ==
  /\ CoreIdle
  /\ cmp = <<>> /\ hx = <<>>
  /\ \E a \in SeqUpTo(DuArgs, MaxArgs) \ {<<>>}, rs \in SeqUpTo(DuRecords, MaxRecs),
        al \in BOOLEAN, ne \in 0 .. 1 :
       /\ \A i \in DOMAIN rs : \E j \in DOMAIN a : HasPrefix(rs[i].path, a[j])
       /\ du = [args0 |-> a, args |-> a, all |-> al, recs |-> rs, nerr |-> ne,
                idx |-> 1, linkmap |-> <<>>, sizes |-> <<>>, res |-> <<>>,
                cnt |-> {}, tot |-> 0, pc |-> "sort"]

NextDu == DuSort \/ DuSkipLink \/ DuCount \/ DuDie \/ DuPrint

SpecDu == InitDu /\ [][NextDu]_vars

\* ================================================================== claims
SameObject(a, b) == a.dev = b.dev /\ a.rdev = b.rdev /\ a.ino = b.ino

\* the regular file a name leads to: itself, or the end of its link chain
\* when links are followed
ReachedFile(nm, fol) ==
  IF nm \notin DOMAIN FS THEN {}
  ELSE IF FS[nm].mode = "reg" THEN {FS[nm]}
  ELSE IF FS[nm].mode = "symlink" /\ fol /\ Stat(nm).ok /\ Stat(nm).fi.mode = "reg"
       THEN {Stat(nm).fi}
  ELSE {}

Done == mpc = "done"

\* C1: in a processArgs run no two items sent on the work channel are the
\* same filesystem object, the action never runs on a path more often than the
\* path was sent, and once the run has returned every regular file that some
\* input name leads to (directly, by a hard link, or by a followed symlink)
\* was sent exactly once and the action ran on it exactly once.
C1_AdmittedExactlyOnce ==
  mode = "args" =>
    /\ \A i, j \in 1 .. Len(admitted) :
         SameObject(admitted[i].fi, admitted[j].fi) => i = j
    /\ \A p \in DOMAIN applied :
         \/ applied[p] = 0
         \/ applied[p] <= Cardinality({i \in 1 .. Len(admitted) : admitted[i].path = p})
    /\ Done =>
         \A i \in 1 .. Len(args) : \A o \in ReachedFile(args[i], follow) :
           \E j \in 1 .. Len(admitted) :
             SameObject(admitted[j].fi, o) /\ applied[admitted[j].path] = 1

\* three different names of one file were given, one item was sent, the
\* action ran once
C1_Witness ==
  /\ mode = "args" /\ Done /\ follow
  /\ \E o \in {FS[n] : n \in DOMAIN FS} :
       Cardinality({args[i] : i \in {i \in 1 .. Len(args) :
                                       o \in ReachedFile(args[i], follow)}}) = 3
  /\ Len(admitted) = 1
  /\ applied[admitted[1].path] = 1

\* C2: for concurrent isEntrySeen calls with one key, at most one returns
\* false, exactly one once all of them have returned, the call that returned
\* false is the one whose record is stored, and the stored record is the first
\* call's and stays.
KeyOfName(nm) == <<FS[nm].dev, FS[nm].rdev, FS[nm].ino>>
PastStore(key) ==
  {c \in Callers : spc[c] \in {"stored", "ret"} /\ KeyOfName(sarg[c]) = key}
ReturnedFalse(key) == {c \in PastStore(key) : spc[c] = "ret" /\ ~sres[c]}

C2_CheckAndSet ==
  \A nm \in TrackNames :
    LET key == KeyOfName(nm)
    IN PastStore(key) # {} =>
         /\ Cardinality(ReturnedFalse(key)) <= 1
         /\ (\A c \in PastStore(key) : spc[c] = "ret")
              => Cardinality(ReturnedFalse(key)) = 1
         /\ key \in DOMAIN seen /\ key \in DOMAIN firstStore
         /\ seen[key] = firstStore[key]
         /\ \A c \in ReturnedFalse(key) : seen[key].nm = sarg[c]

\* three calls on one key under two names have all returned
C2_Witness ==
  /\ \A c \in Callers : spc[c] = "ret" /\ sarg[c] \in {"f", "h"}
  /\ \E c \in Callers : sarg[c] = "f"
  /\ \E c \in Callers : sarg[c] = "h"
  /\ Cardinality({c \in Callers : sres[c]}) = NCallers - 1

\* C3: in both runs the error channel is closed only when every worker has
\* exited, the aggregator finishes only on the closed and drained channel, and
\* the call returns (reads the list) only when the aggregator has finished.
C3_ShutdownOrder ==
  mode \in {"args", "verify"} =>
    /\ errClosed => \A w \in Workers : wpc[w] \in {"off", "done"}
    /\ errClosed <=> mpc \in {"errWait", "done"}
    /\ apc = "done" => errClosed /\ errch = <<>>
    /\ Done => apc = "done"

\* a processArgs run has returned and the last error collected is a worker's
C3_Witness ==
  /\ mode = "args" /\ Done
  /\ Len(errs) >= 2
  /\ errs[Len(errs)].kind = "apply"

\* C4: the errors sent are, in order, the ones collected followed by the ones
\* still in the channel; once the call has returned no worker holds an unsent
\* error and the list the caller gets is exactly the list of errors sent.
C4_NoErrorLost ==
  mode \in {"args", "verify"} =>
    /\ sentErrs = errs \o errch
    /\ Done =>
         /\ errs = sentErrs
         /\ \A w \in Workers : wpc[w] # "senderr"
         /\ mode = "args" => ret = sentErrs

\* a doVerify run has returned with three errors, the feeder's and a worker's,
\* the last one a worker's
C4_Witness ==
  /\ mode = "verify" /\ Done
  /\ Len(errs) = 3
  /\ \E i \in 1 .. Len(errs) : errs[i].kind = "malformed checksum"
  /\ errs[3].kind \in {"file modified", "can't hash", "hash size mismatch"}

\* C5: doVerify returns 0 when no failure was collected and 1 when one or
\* more were.
C5_ExitBinary ==
  mode = "verify" /\ Done => ret = (IF Len(errs) = 0 THEN 0 ELSE 1)

\* C6: the line written for (sum, sz, nm) is read back as one entry with the
\* same hex digest, size and path.
C6_RoundTrip ==
  cpc = "read" =>
    /\ Len(cout) = 1
    /\ cout[1].st = "ok"
    /\ cout[1].d.expsum = FmtHex(cin.sum)
    /\ cout[1].d.size = cin.sz
    /\ cout[1].d.file = cin.nm

\* C7: once a doVerify run has returned, every enqueued entry whose file
\* hashes to its recorded size but to another digest has one failure, a "file
\* modified" error naming the file; an entry whose size and digest match has
\* none; and there are as many "file modified" errors as such entries.
Tampered(it) ==
  /\ VFS[it.file].open /\ VFS[it.file].read = it.size
  /\ FmtHex(VFS[it.file].sum) # it.expsum
Matching(it) ==
  /\ VFS[it.file].open /\ VFS[it.file].read = it.size
  /\ FmtHex(VFS[it.file].sum) = it.expsum

C7_TamperDetected ==
  mode = "verify" /\ Done =>
    /\ \A i \in 1 .. Len(admitted) :
         /\ Tampered(admitted[i]) =>
              /\ failed[admitted[i].line] = 1
              /\ \E j \in 1 .. Len(errs) :
                   errs[j].kind = "file modified" /\ errs[j].nm = admitted[i].file
         /\ Matching(admitted[i]) => failed[admitted[i].line] = 0
    /\ Cardinality({j \in 1 .. Len(errs) : errs[j].kind = "file modified"})
         = Cardinality({i \in 1 .. Len(admitted) : Tampered(admitted[i])})

\* a run with a tampered entry and a matching entry has returned
C7_Witness ==
  /\ mode = "verify" /\ Done
  /\ \E i, j \in 1 .. Len(admitted) :
       Tampered(admitted[i]) /\ Matching(admitted[j])

\* C8: an entry whose file is a regular file of another size than recorded is
\* never sent on the work channel, verifyFile never runs on it, and once the
\* feeder is past it a size mismatch error with its line number was sent.
FieldsOf == [l \in ManifestLines |-> ParseFields(l)]
SizeDiffers(l) ==
  /\ FieldsOf[l].st = "ok"
  /\ FieldsOf[l].fn \in DOMAIN VFS
  /\ VFS[FieldsOf[l].fn].mode = "reg"
  /\ VFS[FieldsOf[l].fn].size # FieldsOf[l].size

C8_SizeCheckedFirst ==
  mode = "verify" =>
    \A i \in 1 .. Len(args) :
      SizeDiffers(args[i]) =>
        /\ \A j \in 1 .. Len(admitted) : admitted[j].line # i + 1
        /\ applied[i + 1] = 0
        /\ i < idx => \E j \in 1 .. Len(sentErrs) :
                        /\ sentErrs[j].kind = "size mismatch"
                        /\ sentErrs[j].pref.num = i + 1

\* a run with an entry of another size and an enqueued entry has returned
C8_Witness ==
  /\ mode = "verify" /\ Done
  /\ \E i \in 1 .. Len(args) : SizeDiffers(args[i])
  /\ Len(admitted) > 0

\* C9: once a processArgs run has returned, the action ran exactly once on
\* every item sent, it failed at most once on a path, every worker started has
\* exited, and the collected list holds one error per failing path.
C9_FailureIsolated ==
  mode = "args" /\ Done =>
    /\ \A i \in 1 .. Len(admitted) : applied[admitted[i].path] = 1
    /\ \A w \in Workers : wpc[w] \in {"off", "done"}
    /\ \A p \in DOMAIN failed :
         /\ failed[p] <= 1
         /\ Cardinality({j \in 1 .. Len(errs) : errs[j] = ErrOf("apply", p)})
              = failed[p]

\* three files were sent; the action failed on the first two and ran on the
\* third without a failure
C9_Witness ==
  /\ mode = "args" /\ Done
  /\ Len(admitted) = 3
  /\ failed[admitted[1].path] = 1
  /\ failed[admitted[2].path] = 1
  /\ applied[admitted[3].path] = 1 /\ failed[admitted[3].path] = 0

\* C10: every item sent on the work channel is a regular file, and once the
\* producer is done there is a skipping diagnostic for every input that is a
\* directory, an unfollowed symlink or another non-regular entry.
NonRegularInput(nm, fol) ==
  /\ nm \in DOMAIN FS
  /\ \/ FS[nm].mode \in {"dir", "other"}
     \/ FS[nm].mode = "symlink" /\ ~fol
     \/ FS[nm].mode = "symlink" /\ fol /\ Stat(nm).ok /\ Stat(nm).fi.mode # "reg"

C10_RegularOnlyAndDiagnosed ==
  mode = "args" =>
    /\ \A i \in 1 .. Len(admitted) : admitted[i].fi.mode = "reg"
    /\ dpc = "done" =>
         Cardinality({j \in 1 .. Len(sentErrs) :
                        sentErrs[j].kind \in {"skipping dir", "skipping non-file",
                                              "skipping symlink"}})
           >= Cardinality({i \in 1 .. Len(args) : NonRegularInput(args[i], follow)})


\* the input positions the producer is past
HandledPos == 1 .. Len(trace)

\* position i names a symbolic link
IsLinkAt(i) == args[i] \in DOMAIN FS /\ FS[args[i]].mode = "symlink"

\* the name at position i was given at an earlier position too
Repeated(i) == \E j \in 1 .. i - 1 : args[j] = args[i]

\* the errors sent so far of one kind that mention one name
SentAbout(k, nm) ==
  {j \in 1 .. Len(sentErrs) : sentErrs[j].kind = k /\ sentErrs[j].nm = nm}

\* C11 as stated: with link-following disabled every input name that is a
\* symbolic link is rejected with a "skipping symlink" diagnostic on the error
\* channel, no item is produced for it, and the producer goes on.
C11_EverySymlinkDiagnosed ==
  mode = "args" /\ ~follow =>
    \A i \in HandledPos :
      IsLinkAt(i) =>
        /\ trace[i].out = "err" /\ trace[i].kind = "skipping symlink"
        /\ idx > i

\* C11 as amended: with link-following disabled, an input name that is a
\* symbolic link is rejected with a "skipping symlink" diagnostic on the error
\* channel when it is the first input with that identity and is skipped
\* without a diagnostic when the same link was given before; in both cases no
\* item is produced for it and the producer goes on with the next name.
C11_SymlinkRejectedOnce ==
  mode = "args" /\ ~follow =>
    /\ \A i \in HandledPos :
         IsLinkAt(i) =>
           /\ ~Repeated(i) =>
                /\ trace[i].out = "err" /\ trace[i].kind = "skipping symlink"
                /\ Cardinality(SentAbout("skipping symlink", args[i])) = 1
           /\ Repeated(i) => trace[i].out = "skip"
           /\ idx > i
    /\ \A j \in 1 .. Len(admitted) :
         FS[admitted[j].path].mode = "reg" /\ admitted[j].fi = FS[admitted[j].path]
         /\ \E i \in HandledPos : args[i] = admitted[j].path

\* links are not followed; a link, the same link again and a file were given
\* and the run has returned with one diagnostic and one item
C11_Witness ==
  /\ mode = "args" /\ ~follow /\ Done
  /\ args = <<"l", "l", "f">>
  /\ Len(errs) = 1 /\ errs[1].kind = "skipping symlink"
  /\ Len(admitted) = 1 /\ admitted[1].path = "f"

\* the links of the filesystem that lie on a cycle
RECURSIVE TargetAfter(_, _)
TargetAfter(n, k) ==
  IF k = 0 \/ n \notin DOMAIN LinkTarget THEN n
  ELSE TargetAfter(LinkTarget[n], k - 1)
CycleLinks ==
  {n \in DOMAIN LinkTarget :
     \E k \in 1 .. Cardinality(DOMAIN LinkTarget) : TargetAfter(n, k) = n}

\* C12: with link-following enabled, an input that is part of a symlink cycle
\* ends its iteration with an error (the resolution failed) when it is first
\* met and with a skip when it was given before; no item is produced for it,
\* and the producer handles every later name and closes the work channel.
C12_CycleTerminates ==
  mode = "args" /\ follow =>
    /\ \A i \in HandledPos :
         args[i] \in CycleLinks =>
           /\ trace[i].out = (IF Repeated(i) THEN "skip" ELSE "err")
           /\ ~Repeated(i) => trace[i].kind = "resolve"
           /\ idx > i
    /\ \A j \in 1 .. Len(admitted) : admitted[j].path \notin CycleLinks
    /\ Done => Len(trace) = Len(args) /\ chClosed

\* a cycle link, then a file behind a link: the cycle ended in an error and the
\* file was still admitted and processed
C12_Witness ==
  /\ mode = "args" /\ follow /\ Done
  /\ args = <<"la", "l", "la">>
  /\ trace[1].kind = "resolve" /\ trace[2].out = "admit" /\ trace[3].out = "skip"
  /\ applied["f"] = 1

\* C13: the producer handles the names one by one in list order, whatever the
\* earlier names led to; the work channel is closed only when every name has
\* been handled, it is closed by the producer's last step, and once closed it
\* stays closed and nothing more is sent on it.
C13_State ==
  mode = "args" =>
    /\ Len(trace) = idx - 1
    /\ idx <= Len(args) + 1
    /\ \A i \in HandledPos : trace[i].nm = args[i]
    /\ chClosed <=> dpc = "done"
    /\ chClosed => Len(trace) = Len(args)

C13_Step ==
  mode = "args" =>
    /\ Len(trace') \in {Len(trace), Len(trace) + 1}
    /\ SubSeq(trace', 1, Len(trace)) = trace
    /\ chClosed => chClosed' /\ admitted' = admitted /\ trace' = trace
    /\ (~chClosed /\ chClosed') => dpc = "loop" /\ idx > Len(args)

C13_EveryNameInOrder == [](C13_State) /\ [][C13_Step]_vars

\* a failed resolution, a skipped repetition and an admitted file, in this
\* order, and the work channel is closed
C13_Witness ==
  /\ mode = "args" /\ chClosed
  /\ Len(trace) = 3
  /\ trace[1].out = "err" /\ trace[2].out = "skip" /\ trace[3].out = "admit"

\* the goroutines of a run have all ended and the call has returned
AllExited ==
  /\ mpc = "done" /\ dpc = "done" /\ apc = "done"
  /\ \A w \in Workers : wpc[w] \in {"off", "done"}

\* C14: under fair scheduling every run, on every name list and every
\* manifest, eventually ends: the call returns with the producer, all workers
\* and the aggregator finished (or the manifest's header was refused and the
\* run was aborted before it started).
C14_Completion == <>(AllExited \/ mpc = Die)

\* C15: every malformed entry line the feeder has read got a diagnostic with
\* its line number, the feeder reads every line of the manifest whatever came
\* before, and once the run has returned every well-formed entry that passed
\* the checks of parseLine was verified.
Malformed(l) == ParseFields(l).st # "ok"

C15_MalformedDiagnosed ==
  mode = "verify" =>
    /\ \A i \in HandledPos :
         Malformed(args[i]) =>
           /\ trace[i].out = "err"
           /\ \E j \in 1 .. Len(sentErrs) : sentErrs[j].pref = ErrPref(i)
    /\ dpc \notin {"off", "loop"} => Len(trace) = Len(args)
    /\ mpc \notin {"header", "wrkWait", Die} =>
         \A i \in 1 .. Len(args) :
           ParsedLines[args[i]].st = "ok" => applied[i + 1] = 1

\* C16: when the first line of the manifest is missing, has fewer than three
\* space-separated fields, does not start with the magic token or names an
\* algorithm that is not in the Hashes table, no worker, feeder or aggregator
\* is ever started, no entry line is read, nothing is sent on a channel, and
\* the run is aborted.
StartsWith(s, pre) == Len(s) >= Len(pre) /\ SubSeq(s, 1, Len(pre)) = pre

BadHeader ==
  \/ hdr = <<>>
  \/ /\ hdr # <<>>
     /\ \/ Len(Split(hdr[1], " ")) < 3
        \/ ~StartsWith(hdr[1], MAGIC)
        \/ Split(hdr[1], " ")[2] \notin Hashes

C16_FatalHeaderBypasses ==
  mode = "verify" /\ BadHeader =>
    /\ mpc \in {"header", Die}
    /\ dpc = "off" /\ apc = "off"
    /\ \A w \in Workers : wpc[w] = "off"
    /\ idx = 1 /\ trace = <<>>
    /\ ch = <<>> /\ errch = <<>> /\ sentErrs = <<>> /\ admitted = <<>>
    /\ \A n \in DOMAIN applied : applied[n] = 0

\* a manifest of three entries whose header names an unknown algorithm was
\* refused
C16_Witness ==
  /\ mode = "verify" /\ mpc = Die
  /\ hdr # <<>> /\ Len(Split(hdr[1], " ")) >= 3
  /\ Split(hdr[1], " ")[1] = MAGIC
  /\ Split(hdr[1], " ")[2] \notin Hashes
  /\ Len(args) = 3

\* processArgs has returned to main
ArgsReturned == mpc \in {"done", "wgWait", "exited"}

\* C17: once the processArgs that returns one error has returned, its result
\* is nil exactly when no error was sent on the error channel during the run;
\* otherwise it is one joined error that wraps every error sent, in the order
\* they were sent
C17_MergedResult ==
  (mode = "gen" /\ ArgsReturned) =>
    /\ (ret = NilError) <=> (sentErrs = <<>>)
    /\ sentErrs # <<>> => (ret.kind = "join" /\ ret.errs = sentErrs)

\* a run has returned a join of a producer's error and a worker's error
C17_Witness ==
  /\ mode = "gen" /\ mpc = "done"
  /\ Len(ret.errs) >= 2
  /\ \E i, j \in DOMAIN ret.errs :
       ret.errs[i].kind = "hash" /\ ret.errs[j].kind = "skipping non-file"

\* the path an output line names: its text after the last "|", without the
\* line end
NameOfLine(l) ==
  LET f == Split(SubSeq(l, 1, Len(l) - 1), "|") IN f[Len(f)]

\* the output lines that name a path
LinesNaming(p) == {i \in DOMAIN out : NameOfLine(out[i]) = PathText(p)}

\* the generation ended and every write to the output succeeded
GenEnded == mode = "gen" /\ mpc = "exited" /\ opc = "done"

\* C18: when a generating run whose writes all succeeded has exited, the
\* output holds after its first line one entry line for each successful
\* hashing of a file (its digest, the size read and its path), no line for a
\* file whose hashing failed and no other line; and the exit status is
\* non-zero exactly when at least one error was collected
C18_PartialManifest ==
  GenEnded =>
    /\ \A p \in DOMAIN applied :
         /\ Cardinality(LinesNaming(p)) = applied[p] - failed[p]
         /\ failed[p] > 0 => LinesNaming(p) = {}
         /\ \A i \in LinesNaming(p) :
              out[i] = EntryLine(GFiles[p].sum, GFiles[p].read, PathText(p))
    /\ \A i \in 2 .. Len(out) : \E p \in DOMAIN applied : i \in LinesNaming(p)
    /\ (exit # 0) <=> (Len(errs) >= 1)

\* a run wrote the entries of two files, failed to hash a third and exited
\* with a non-zero status
C18_Witness ==
  /\ GenEnded
  /\ Len(out) = 3
  /\ \E p \in DOMAIN failed : failed[p] > 0
  /\ exit = 1

\* C19: every processArgs invocation starts with an empty tracker, and a
\* later invocation on the same input leaves every input position the way the
\* earlier one did and sends the same items on the work channel: what the
\* earlier invocation admitted is admitted again
C19_TrackerPerInvocation ==
  (mode = "args" /\ run > 0) =>
    /\ (idx = 1 /\ dpc = "loop") => seen = EmptyMap
    /\ Done => (trace = prevTrace /\ admitted = prev)

\* a second invocation has returned after admitting the file the first one
\* admitted and skipping the names the first one skipped
C19_Witness ==
  /\ mode = "args" /\ run = 1 /\ Done
  /\ Len(prev) >= 1
  /\ admitted = prev
  /\ \E i \in DOMAIN trace : trace[i].out = "skip"

\* C20: every group finddup prints holds two or more files, every file of
\* the group has the group's checksum, and the files are listed from the most
\* recently modified to the least
C20_GroupsReported ==
  mode = "dup" =>
    \A g \in DOMAIN rpt :
      LET fs == rpt[g].files
      IN /\ Cardinality({fs[i].path : i \in DOMAIN fs}) >= 2
         /\ \A i \in DOMAIN fs :
              fs[i].path \in dfiles /\ DupFiles[fs[i].path].sum = rpt[g].sum
         /\ \A i, j \in DOMAIN fs :
              i < j => DupFiles[fs[i].path].mtime >= DupFiles[fs[j].path].mtime

\* both comparisons have returned
CmpOver == cmp # <<>> /\ cmp.pc = <<"ret", "ret">>

\* C21: the two comparisons of one computed digest with two expected digests
\* of the same length combine the same number of byte pairs, wherever the
\* expected digests differ from the computed one, and each returns 1 exactly
\* when its expected digest equals the computed one
C21_SameWork ==
  CmpOver =>
    /\ cmp.work[1] = cmp.work[2]
    /\ cmp.size = cmp.sz =>
         \A r \in 1 .. 2 : (cmp.res[r] = 1) <=> (cmp.e[r] = cmp.x)

\* one expected digest differs from the computed one in the first byte only,
\* the other in the last byte only, and both comparisons went through every
\* byte
C21_Witness ==
  /\ CmpOver
  /\ Len(cmp.x) = MaxHex /\ Len(cmp.e[1]) = MaxHex
  /\ cmp.e[1][1] # cmp.x[1]
  /\ \A k \in 2 .. MaxHex : cmp.e[1][k] = cmp.x[k] /\ cmp.e[2][k - 1] = cmp.x[k - 1]
  /\ cmp.e[2][MaxHex] # cmp.x[MaxHex]
  /\ cmp.work = <<MaxHex, MaxHex>>

\* the name at position i is a symbolic link that resolves to a directory, and
\* neither the link nor its target was named at an earlier position
FreshLinkToDir(i) ==
  /\ IsLinkAt(i)
  /\ Stat(args[i]).ok /\ Stat(args[i]).fi.mode = "dir"
  /\ \A j \in 1 .. i - 1 :
        Lstat(args[j]).ok =>
          /\ ~SameObject(Lstat(args[j]).fi, Lstat(args[i]).fi)
          /\ ~SameObject(Lstat(args[j]).fi, Stat(args[i]).fi)
          /\ Stat(args[j]).ok => ~SameObject(Stat(args[j]).fi, Stat(args[i]).fi)

\* C22: with link-following enabled, an input symlink whose resolved target is
\* a directory ends its loop iteration with a "skipping dir" error sent on the
\* error channel, and is not enqueued.
C22_LinkToDirDiagnosed ==
  (mode = "args" /\ follow) =>
    \A i \in HandledPos :
      FreshLinkToDir(i) =>
        /\ trace[i].out = "err" /\ trace[i].kind = "skipping dir"
        /\ \E j \in 1 .. Len(sentErrs) : sentErrs[j].kind = "skipping dir"
        /\ \A j \in 1 .. Len(admitted) :
              admitted[j].path \notin {args[i], EvalSymlinks(args[i]).path}

\* the phase of one invocation, read off its goroutines: Idle (0) until the
\* producer is started, Dispatching (1) while the producer is in its loop,
\* Draining (2) once the producer is through and Done (3) once the call
\* has returned
PhaseNo ==
  IF mpc = "done" THEN 3
  ELSE IF dpc = "done" THEN 2
  ELSE IF dpc = "off" THEN 0
  ELSE 1

\* what holds of a state in a given phase (processArgs starts no worker for
\* an empty list and does not wait for its producer, so that call can
\* return before the producer has closed the work channel)
PhaseHolds(ph, i, list, closed, wp, ap, ec, sent, got) ==
  /\ (ph = 2 \/ (ph = 3 /\ list # <<>>)) => i > Len(list) /\ closed
  /\ ph = 3 =>
       /\ \A w \in Workers : wp[w] \in {"off", "done"}
       /\ ap = "done"
       /\ ec = <<>> /\ got = sent

\* C23: the phase only moves forward through Idle, Dispatching, Draining,
\* Done (one phase at a time when there is any input); Draining is entered
\* only with the input exhausted and the work channel closed; Done only with
\* every worker exited and every error sent received by the aggregator.
C23_PhaseForward ==
  [][ /\ PhaseNo' >= PhaseNo
      /\ args # <<>> => PhaseNo' <= PhaseNo + 1
      /\ PhaseHolds(PhaseNo', idx', args', chClosed', wpc', apc', errch',
                    sentErrs', errs') ]_vars

\* a verification that went through all four phases, with entries enqueued
\* and errors collected
C23_Witness ==
  /\ mode = "verify" /\ PhaseNo = 3
  /\ Len(args) = MaxLines /\ Len(admitted) >= 1 /\ Len(errs) >= 2

\* one step of a channel: nothing, a receive of its first item, or a send
\* that adds one item at its end while there is room
ChanStep(q, q2, cap) ==
  \/ q2 = q
  \/ Len(q) > 0 /\ q2 = Tail(q)
  \/ Len(q) < cap /\ Len(q2) = Len(q) + 1 /\ SubSeq(q2, 1, Len(q)) = q

\* C24: the work channel never holds more than nWorkers items, the error
\* channel never more than 1, the result channel never more than 16; a
\* channel changes only by a send at its end while it has room or by a receive
\* at its head; a sender leaves its send only by placing its own item in the
\* channel (or with the whole process ending), and the item a receive removes
\* is the one the receiver gets.
C24_Backpressure ==
  [][ /\ Len(ch') <= nWorkers /\ Len(errch') <= 1 /\ Len(rch') <= 16
      /\ ChanStep(ch, ch', nWorkers)
      /\ ChanStep(errch, errch', 1)
      /\ ChanStep(rch, rch', 16)
      /\ \A w \in Workers :
            /\ (wpc[w] = "sendres" /\ wpc'[w] \notin {"sendres", "dead"})
                 => Len(rch) < 16 /\ rch' = Append(rch, wres[w])
            /\ (wpc[w] = "senderr" /\ wpc'[w] \notin {"senderr", "dead"})
                 => Len(errch) < 1 /\ errch' = Append(errch, werr[w])
      /\ (mode \in ListModes /\ dpc = "loop" /\ idx' # idx) =>
            /\ Cur.out = "admit" => Len(ch) < nWorkers /\ ch' = Append(ch, Cur.item)
            /\ Cur.out = "err" => Len(errch) < 1 /\ errch' = Append(errch, Cur.err)
      /\ (mode = "verify" /\ dpc = "loop" /\ idx' # idx) =>
            /\ CurLine.st = "ok" =>
                 /\ Len(ch) < nWorkers /\ Len(ch') = Len(ch) + 1
                 /\ ch'[Len(ch')].line = idx + 1
            /\ CurLine.st = "err" =>
                 /\ Len(errch) < 1 /\ Len(errch') = Len(errch) + 1
                 /\ errch'[Len(errch')].pref = ErrPref(idx)
      /\ (Len(ch) > 0 /\ ch' = Tail(ch)) =>
            \E w \in Workers : wpc[w] = "recv" /\ witem'[w] = Head(ch)
      /\ (Len(errch) > 0 /\ errch' = Tail(errch)) => errs' = Append(errs, Head(errch))
      /\ (Len(rch) > 0 /\ rch' = Tail(rch)) =>
            \/ out' = Append(out, EntryLine(Head(rch).sum, Head(rch).sz,
                                            PathText(Head(rch).nm)))
            \/ opc' = "failed"
    ]_vars

\* the result channel is full and a worker is blocked in its send, its result
\* still its own
C24_Witness ==
  /\ mode = "gen" /\ Len(rch) = 16
  /\ \E w \in Workers : wpc[w] = "sendres" /\ wres[w] # NoTuple
  /\ opc = "write"

\* C25: when the byte count hashed differs from the size the entry expects,
\* verifyFile returns the hash size mismatch and no byte of the digests is
\* ever compared; the digests are compared only when the counts agree.
C25_SizeBeforeDigest ==
  cmp # <<>> =>
    \A r \in 1 .. 2 :
      /\ cmp.size # cmp.sz =>
           /\ cmp.work[r] = 0 /\ cmp.pc[r] # "loop"
           /\ cmp.pc[r] = "ret" => cmp.err[r] = "hash size mismatch"
      /\ (cmp.size = cmp.sz /\ cmp.pc[r] = "ret") =>
           cmp.err[r] = IF cmp.e[r] = cmp.x THEN "" ELSE "file modified"

\* an entry whose size and digest both differ from what was hashed is
\* reported as a size mismatch
C25_Witness ==
  /\ CmpOver /\ cmp.size # cmp.sz
  /\ Len(cmp.x) = MaxHex /\ Len(cmp.e[1]) = MaxHex /\ cmp.e[1] # cmp.x
  /\ cmp.err[1] = "hash size mismatch" /\ cmp.work[1] = 0

\* the identity of a file: its device, its device type and its inode number
Identity(fi) == <<fi.dev, fi.rdev, fi.ino>>

\* the identities the tracker has to hold once the producer is past the list:
\* what lstat reports for every name it succeeds on, and what stat reports for
\* every symbolic link that is followed and resolves
Registered ==
  {Identity(Lstat(args[i]).fi) : i \in {j \in DOMAIN args : Lstat(args[j]).ok}}
    \cup {Identity(Stat(args[i]).fi) :
            i \in {j \in DOMAIN args : IsLinkAt(j) /\ follow /\ Stat(args[j]).ok}}

\* C26: during one traversal no key leaves the inode tracker and no value in it
\* changes, and once the producer is done the tracker holds the lstat identity
\* of every name whose lstat succeeded and the identity of the resolved target
\* of every symbolic link that was resolved.
C26_TrackerGrows ==
  [][ /\ \A k \in DOMAIN seen : k \in DOMAIN seen' /\ seen'[k] = seen[k]
      /\ (mode' = "args" /\ dpc' = "done") => Registered' \subseteq DOMAIN seen'
    ]_vars

\* a finished traversal of two links and a file on another device with the
\* inode number of the first link's target: five identities are registered
C26_Witness ==
  /\ mode = "args" /\ dpc = "done" /\ follow
  /\ args = <<"l", "g", "ld">>
  /\ Cardinality(DOMAIN seen) = 5

\* C27: every error of a verification, whether the feeder raised it while
\* parsing or stat-ing a line or a worker raised it in verifyFile, is prefixed
\* with the manifest's name and the number of the line it belongs to (the
\* header is line 1, the first entry line 2), a line that did fail.
C27_ErrorsCarryLine ==
  mode = "verify" =>
    \A j \in 1 .. Len(sentErrs) :
      /\ sentErrs[j].pref.nm = ErrPref(1).nm
      /\ sentErrs[j].pref.num \in 2 .. Len(args) + 1
      /\ failed[sentErrs[j].pref.num] >= 1

\* the sum of the sizes of the records at a set of positions
RECURSIVE SumAt(_)
SumAt(S) ==
  IF S = {} THEN 0
  ELSE LET k == CHOOSE x \in S : TRUE
       IN du.recs[k].size + SumAt(S \ {k})

\* the arguments as given that are a prefix of a path, and the longest ones
PrefixArgs(p) == {du.args0[i] : i \in {j \in DOMAIN du.args0 :
                                         HasPrefix(p, du.args0[j])}}
LongestArgs(p) == {a \in PrefixArgs(p) : \A b \in PrefixArgs(p) : Len(b) <= Len(a)}

\* the total kept for an argument
TotalOf(a) == IF a \in DOMAIN du.sizes THEN du.sizes[a] ELSE 0

\* C28: once the arguments are sorted, the total of every argument is the sum
\* of the sizes of the counted records whose path it is the longest prefix of
\* among the arguments (each record has exactly one), also with an argument
\* that is a prefix of another or is given twice; the totals add up to the
\* sum of the sizes of the counted records, and so does the printed total.
C28_LongestPrefix ==
  (du # <<>> /\ du.pc # "sort") =>
    /\ \A k \in du.cnt : Cardinality(LongestArgs(du.recs[k].path)) = 1
    /\ \A a \in DuArgs :
          TotalOf(a) = SumAt({k \in du.cnt : a \in LongestArgs(du.recs[k].path)})
    /\ TotalOf(<<"a">>) + TotalOf(<<"a", "/", "b">>) + TotalOf(<<"a", "b">>)
         = SumAt(du.cnt)
    /\ DOMAIN du.sizes \subseteq DuArgs
    /\ du.pc = "done" => du.tot = SumAt(du.cnt)

\* a is given twice and is a prefix of a/b and of ab: a/x went to a, a/b/x to
\* a/b and ab/x to ab
C28_Witness ==
  /\ du # <<>> /\ du.pc = "done" /\ ~du.all
  /\ Len(du.args0) = 3 /\ du.args0[1] = <<"a">> /\ du.args0[3] = <<"a">>
  /\ du.args0[2] = <<"a", "/", "b">>
  /\ DOMAIN du.sizes = {<<"a">>, <<"a", "/", "b">>}
  /\ du.sizes[<<"a">>] = 1 /\ du.sizes[<<"a", "/", "b">>] = 2
  /\ du.tot = 3

\* the records handled so far that are not a later name of a file with more
\* than one link
FirstNames ==
  {k \in 1 .. du.idx - 1 :
     \/ du.recs[k].nlink = 1
     \/ ~\E j \in 1 .. k - 1 :
           /\ du.recs[j].nlink > 1
           /\ du.recs[j].dev = du.recs[k].dev
           /\ du.recs[j].rdev = du.recs[k].rdev
           /\ du.recs[j].ino = du.recs[k].ino}

\* C29: the records counted are exactly those with one link and, for every
\* (device, rdev, inode) with more than one link, the first record with that
\* identity; every later record with it is skipped and adds nothing to the
\* totals.
C29_HardLinkOnce ==
  du # <<>> =>
    /\ du.cnt = FirstNames
    /\ TotalOf(<<"a">>) + TotalOf(<<"a", "/", "b">>) + TotalOf(<<"a", "b">>)
         = SumAt(FirstNames)
    /\ du.all => Len(du.res) = Cardinality(FirstNames)

\* two names of one file and a file on another device with the same inode
\* number: the first and the third are counted
C29_Witness ==
  /\ du # <<>> /\ du.pc = "done"
  /\ Len(du.recs) = 3
  /\ du.recs[1].path = <<"a", "/", "b", "/", "x">>
  /\ du.recs[2].path = <<"a", "/", "b", "/", "y">>
  /\ du.recs[3].path = <<"a", "b", "/", "x">>
  /\ du.cnt = {1, 3} /\ du.tot = 6

\* C30: once hexlify b64 has closed its output, the output is the standard
\* base64 encoding of the whole input (followed by the newline Close adds),
\* however the input was split into Write calls and chunks.
C30_WholeInputEncoded ==
  (hx # <<>> /\ hx.pc = "closed") => hx.out = Append(StdEncode(hx.input), "\n")

\* C31: once the error channel is closed no goroutine is at or before a send on
\* it: every worker has exited and the producer (processArgs' dispatcher, which
\* the worker wait group does not count, or doVerify's feeder) has no input
\* left, also for an empty name list and for a list with no regular file.
C31_NoSendAfterClose ==
  errClosed =>
    /\ \A w \in Workers : wpc[w] \in {"off", "done"}
    /\ dpc = "done" \/ idx > Len(args)

\* a processArgs run over a list with no regular file has closed its error
\* channel after one diagnostic per name
C31_Witness ==
  /\ mode = "args" /\ errClosed
  /\ Len(args) = MaxArgs /\ admitted = <<>> /\ Len(sentErrs) = MaxArgs

\* C32: a generating run whose writer goroutine has stopped on a failed write
\* still ends: the process exits
C32_GenTerminates == (opc = "failed") ~> (mpc = "exited")

\* the results the workers of a generating run have sent: one per admitted
\* file that hashFile could read, once every admitted file was applied
ResultsSent ==
  {i \in DOMAIN admitted : HashFile(GFiles, admitted[i].path).ok}
\* the manifest line of the result for the i-th admitted file
LineOf(i) ==
  LET r == HashFile(GFiles, admitted[i].path)
  IN EntryLine(r.sum, r.sz, PathText(admitted[i].path))
\* the result channel is closed only after processArgs returned and every
\* worker exited: no worker is left that could send on it
ClosedAfterWorkers ==
  rchClosed =>
    /\ mpc \in {"wgWait", "exited"}
    /\ \A w \in Workers : wpc[w] \in {"off", "done"}
\* every result sent has its line in the output, and the output holds the
\* header and these lines only
AllWritten ==
  /\ \A i \in ResultsSent : \E j \in 2 .. Len(out) : out[j] = LineOf(i)
  /\ Len(out) = 1 + Cardinality(ResultsSent)

C34_NoFileLost ==
  mode = "dup" /\ WalkOver =>
    \A n \in dfiles :
      fpc[n] = "done" =>
        /\ KeyOf(n) \in DOMAIN dups
        /\ Cardinality({i \in DOMAIN GroupOf(KeyOf(n)) :
                          GroupOf(KeyOf(n))[i].path = n}) = 1

\* the paths of the active "rm -f" lines and of the commented-out line that
\* shell mode prints for a reported group
ActivePaths(r) ==
  {ShellLines(r.files)[i].path :
     i \in {j \in DOMAIN r.files : ShellLines(r.files)[j].active}}
CommentedPaths(r) ==
  {ShellLines(r.files)[i].path :
     i \in {j \in DOMAIN r.files : ~ShellLines(r.files)[j].active}}

\* C35: for every reported group shell mode comments out exactly one file,
\* which has no active "rm -f" line and is the most recently modified of the
\* files with the group's checksum; the active lines name exactly the other
\* files of the group, all of them files with that checksum.
C35_OneCopyKept ==
  \A g \in DOMAIN rpt :
    LET r == rpt[g]
        keep == r.files[1].path
    IN /\ CommentedPaths(r) = {keep}
       /\ keep \notin ActivePaths(r)
       /\ ActivePaths(r) \subseteq
            {n \in dfiles : KeyOf(n) = r.sum /\ fpc[n] = "done"}
       /\ keep \in dfiles /\ KeyOf(keep) = r.sum
       /\ \A n \in ActivePaths(r) :
            DupFiles[keep].mtime >= DupFiles[n].mtime

\* an error the dispatcher sent (the workers' errors are those of apply)
IsDiagnostic(e) == e.kind \notin {"apply", "hash"}
\* a position of the input that ended in a diagnostic
IsRejected(h) == h.out = "err"

\* C36: the dispatcher's diagnostics stand in the aggregated error list in
\* the order of the input names they are about, whatever worker errors lie
\* between them: the k-th diagnostic of the list is the one of the k-th
\* rejected name.
C36_DiagnosticsInInputOrder ==
  mode \in ListModes =>
    LET d == SelectSeq(errs, IsDiagnostic)
        t == SelectSeq(trace, IsRejected)
    IN /\ Len(d) <= Len(t)
       /\ \A k \in DOMAIN d :
            /\ d[k].kind = t[k].kind
            /\ d[k].kind # "resolve" => d[k].nm = t[k].nm

\* two diagnostics of different names are collected with a worker's error
\* between them
C36_Witness ==
  /\ mode = "gen" /\ Len(errs) = 3
  /\ IsDiagnostic(errs[1]) /\ ~IsDiagnostic(errs[2]) /\ IsDiagnostic(errs[3])
  /\ errs[1].nm # errs[3].nm

\* a position of the input that ended in a WorkItem
IsAdmitted(h) == h.out = "admit"
\* the file a chain of links ends at, followed one link at a time
RECURSIVE Target(_)
Target(nm) == IF nm \in DOMAIN LinkTarget THEN Target(LinkTarget[nm]) ELSE nm

\* C37: the WorkItem of an admitted symlink carries the path and the stat
\* record of the file its chain of links ends at, a regular file, and links
\* are admitted only when they are followed; the WorkItem of any other
\* admitted input carries the input name and its own record.
C37_ItemIsResolvedTarget ==
  mode \in ListModes =>
    LET t == SelectSeq(trace, IsAdmitted)
    IN /\ Len(t) = Len(admitted)
       /\ \A k \in DOMAIN admitted :
            IF FS[t[k].nm].mode = "symlink"
            THEN /\ follow
                 /\ admitted[k].path = Target(t[k].nm)
                 /\ admitted[k].path # t[k].nm
                 /\ admitted[k].fi = FS[Target(t[k].nm)]
                 /\ admitted[k].fi.mode = "reg"
            ELSE /\ admitted[k].path = t[k].nm
                 /\ admitted[k].fi = FS[t[k].nm]

\* a link to a link to a regular file was followed and admitted, and a name
\* that is no link was admitted as well
C37_Witness ==
  /\ mode = "gen" /\ follow /\ Len(admitted) = 2
  /\ \E k \in DOMAIN trace :
       /\ trace[k].nm = "ll" /\ trace[k].out = "admit"
  /\ \E k \in DOMAIN admitted : admitted[k].path = "f"
  /\ \E k \in DOMAIN admitted : admitted[k].path = "g"

\* the entry lines of the manifest: line 1 is the header
EntryLines == 2 .. Len(args) + 1
\* where the datum of an entry line is: in the channel, or with a worker
\* that received it and has not yet returned from verifyFile
InChannel(l) == {i \in DOMAIN ch : ch[i].line = l}
Holders(l) == {w \in Workers : witem[w] # NoItem /\ witem[w].line = l}
Enqueued(l) == \E k \in DOMAIN admitted : admitted[k].line = l
\* the failures collected once the harvester has ended, and the lines that
\* fail: those parseLine rejects and those verifyFile finds modified
RejectedLines == {l \in EntryLines : ParsedLines[args[l - 1]].st = "err"}
ModifiedItems == {k \in DOMAIN admitted : ~VerifyFile(admitted[k], VFS).ok}

\* C38: in doVerify an entry line yields at most one failure and verifyFile
\* runs on it at most once; a line parseLine rejects is never enqueued; the
\* datum of an enqueued line is in the channel, or with one worker, or was
\* verified once, never two of these; and when doVerify has collected its
\* errors there is one per failing line.
C38_OncePerLine ==
  mode = "verify" =>
    /\ \A l \in EntryLines :
         /\ applied[l] <= 1 /\ failed[l] <= 1
         /\ ParsedLines[args[l - 1]].st # "ok" =>
              ~Enqueued(l) /\ applied[l] = 0
         /\ Enqueued(l) =>
              /\ Cardinality({k \in DOMAIN admitted : admitted[k].line = l}) = 1
              /\ Cardinality(InChannel(l)) + Cardinality(Holders(l))
                   + applied[l] = 1
    /\ mpc = "done" /\ hdr # <<>> /\ HeaderCheck(hdr) = "" =>
         /\ \A l \in EntryLines : Enqueued(l) => applied[l] = 1
         /\ Len(errs) = Cardinality(RejectedLines) + Cardinality(ModifiedItems)
         /\ Len(errs) = Cardinality({l \in EntryLines : failed[l] = 1})

\* doVerify has ended on a manifest of MaxLines entry lines with a rejected
\* line, a line whose file was modified and a line that verifies
C38_Witness ==
  /\ mode = "verify" /\ mpc = "done" /\ Len(args) = MaxLines
  /\ Cardinality(RejectedLines) = 1 /\ Cardinality(ModifiedItems) = 1
  /\ Len(admitted) = 2 /\ Len(errs) = 2
====
